---- MODULE Spec2Model ----
(***************************************************************************)
(* Model of nas-subtitle-manager: the job store (database/task_dao.py),    *)
(* the worker loop (core/worker.py), the task-queue page                   *)
(* (ui/pages/task_queue.py) and the adaptive batch translator              *)
(* (services/translator.py).                                               *)
(*                                                                         *)
(* Log lines are written in the source in Chinese; the model uses ASCII    *)
(* labels for them and names the original in a comment where it is set.    *)
(***************************************************************************)
EXTENDS Integers, Sequences, FiniteSets, TLC

(***************************************************************************)
(* Bounds of the model.                                                    *)
(***************************************************************************)
\* number of INSERTs into tasks the model follows (AUTOINCREMENT ids 1..MaxId)
MaxId == 2

\* the media files a job can be enqueued for
Paths == {"a.mkv", "b.mkv"}

\* worker loops polling the store (app.py starts one worker_thread per
\* browser session; TaskWorker.start after stop leaves the old loop alive)
Workers == {"w1", "w2"}

\* browser sessions showing the task-queue page
Sessions == {"s1", "s2"}

\* the media file of the runs with several loops and sessions
MultiPath == "a.mkv"

\* the frames of _translate_batch the interpreter allows before it raises
\* RecursionError (sys.getrecursionlimit() is 1000 in CPython)
RecursionLimit == 4

\* the most items in a response given to _parse_translation_response
MaxItems == 2

\* the longest document and the largest max_lines_per_batch of the runs
\* that follow the planning of batches
PlanDocMax == 6
PlanBatchMax == 3

\* lengths of the documents translated, and the max_lines_per_batch values
DocLens == {0, 40, 60, 101, 120}
\* lengths of the subtitle files a run of the worker translates
RunDocs == {0, 40, 60}
\* the max_lines_per_batch values of the configuration in such a run
RunBatchSizes == {50, 500}
BatchSizes == {50, 100, 500}

(***************************************************************************)
(* Program constants.                                                      *)
(***************************************************************************)
PENDING == "pending"
PROCESSING == "processing"
COMPLETED == "completed"
FAILED == "failed"
TaskStatus == {PENDING, PROCESSING, COMPLETED, FAILED}

\* an argument of update_task left at its default None
None == "None"
\* the progress argument of update_task left at its default None
NoProgress == -1

\* log lines
LogReady == "ready"                    \* '准备中' (add_task)
LogStarted == "started"                \* "任务启动"
LogFileLost == "file lost"             \* "文件丢失"
LogSrtExists == "srt exists"           \* "基础字幕已存在"
LogLoadWhisper == "load whisper"       \* "加载 Whisper (...)..."
LogWhisper == "whisper progress"       \* messages of WhisperService.extract_subtitle
LogExtractFailed == "extract failed"   \* "提取失败: ..."
LogPrepare == "prepare translation"    \* "准备翻译..."
LogTranslating == "translating"        \* messages of SubtitleTranslator._update_progress
LogDone == "done"                      \* "完成"
LogTransFailed == "translation failed" \* "翻译失败: ..."
LogTransError == "translation error"   \* "翻译异常: ..." / "翻译模块未安装"
LogException == "exception"            \* "异常: ..."
LogRetrying == "retrying"              \* '重试中...'

\* TranslationConfig defaults
DefaultMaxLines == 500
DefaultMaxRetries == 3

\* _translate_batch: if len(entries) > 100 and retry_count >= 2
SplitThreshold == 100
SplitRetryCount == 2
\* _translate_batch: if len(entries) > 50: ... retry_count + 99
BisectFloor == 50
RetryBump == 99

\* context_before / context_after left at None
NoContext == -1

\* return values of add_task
AddOk == "added"                       \* (True, "任务已添加")
AddDuplicate == "exists"               \* (False, "任务已存在")

VARIABLES
    tasks,      \* table tasks: id -> row, for the ids that have a row
    nextId,     \* sqlite_sequence of tasks: the id the next INSERT gets
    clock,      \* CURRENT_TIMESTAMP, in seconds
    dbEnabled,  \* persisted configuration: translation.enabled
    addRet,     \* what the last add_task call returned, with its argument
    page,       \* per session: the rows get_all_tasks returned to the page
    wpc,        \* per worker loop: where the loop is
    wtask,      \* per worker loop: task.id of the task it polled
    wcfg,       \* per worker loop: the configuration loaded for this iteration
    doc,        \* translator: len(entries) of the document being translated
    maxBatch,   \* translator: config.max_lines_per_batch
    maxRetries, \* translator: config.max_retries
    tpc,        \* translate_subtitles: where it is
    bi,         \* translate_subtitles: the loop variable i
    out,        \* translate_subtitles: translated_entries, as slices of the document
    stack,      \* the frames of _translate_batch, outermost first
    resp,       \* how the last channel call ended
    err,        \* the exception translate_subtitles ended with
    response,         \* _parse_translation_response: the response text
    expected_count,   \* _parse_translation_response: expected_count
    translations,     \* _parse_translation_response: what the call gave
    original_subs,    \* check_translation_quality: the source texts
    translated_subs,  \* check_translation_quality: the translated texts
    source_lang,      \* check_translation_quality: source_lang
    quality,          \* check_translation_quality: what the call returned
    retry,            \* app.py translate_subtitles: the loop variable retry
    failed_batches,   \* app.py translate_subtitles: failed_batches
    mgr,              \* the ConfigManager instances of the pages, and their callers
    cfgHist,          \* which save of the configuration each load and each job saw
    tw                \* the TaskWorker: self.running, and the calls of start under way

storeVars == <<tasks, nextId, clock, dbEnabled, addRet, page, wpc, wtask, wcfg>>
transVars == <<doc, maxBatch, maxRetries, tpc, bi, out, stack, resp, err>>
parseVars == <<response, expected_count, translations>>
auditVars == <<original_subs, translated_subs, source_lang, quality>>
legacyVars == <<retry, failed_batches>>
cfgVars == <<mgr, cfgHist>>
restVars == <<parseVars, auditVars, legacyVars, cfgVars, tw>>
vars == <<tasks, nextId, clock, dbEnabled, addRet, page, wpc, wtask, wcfg,
          doc, maxBatch, maxRetries, tpc, bi, out, stack, resp, err,
          response, expected_count, translations,
          original_subs, translated_subs, source_lang, quality,
          retry, failed_batches, mgr, cfgHist, tw>>

(***************************************************************************)
(* Job store: database/task_dao.py on the schema of connection.py          *)
(***************************************************************************)
Ids == DOMAIN tasks

PathTaken(t, path) == \E i \in DOMAIN t : t[i].file_path = path

NewRow(path, now) ==
    [file_path |-> path, status |-> PENDING, progress |-> 0,
     log |-> LogReady, created_at |-> now]

\* INSERT on a tasks table whose file_path column has no UNIQUE constraint
InsertNoUnique(t, id, path, now) ==
    [i \in DOMAIN t \cup {id} |-> IF i = id THEN NewRow(path, now) ELSE t[i]]

\* the table after INSERT INTO tasks (file_path, status, log); the UNIQUE
\* constraint on file_path makes the INSERT raise IntegrityError
Insert(t, id, path, now) ==
    IF PathTaken(t, path) THEN t
    ELSE [i \in DOMAIN t \cup {id} |-> IF i = id THEN NewRow(path, now) ELSE t[i]]

add_task_result(t, path) == IF PathTaken(t, path) THEN AddDuplicate ELSE AddOk

\* an update that makes the row when there is none (INSERT OR REPLACE)
UpdateOrInsert(t, id, status, progress, log) ==
    [i \in DOMAIN t \cup {id} |->
        IF i # id THEN t[i]
        ELSE [file_path |-> IF id \in DOMAIN t THEN t[id].file_path ELSE None,
              status |-> IF status # None THEN status
                         ELSE IF id \in DOMAIN t THEN t[id].status ELSE PENDING,
              progress |-> IF progress # NoProgress THEN progress
                           ELSE IF id \in DOMAIN t THEN t[id].progress ELSE 0,
              log |-> IF log # None THEN log
                      ELSE IF id \in DOMAIN t THEN t[id].log ELSE None,
              created_at |-> IF id \in DOMAIN t THEN t[id].created_at ELSE 0]]

\* UPDATE tasks SET <the arguments that are not None> WHERE id=?
update_task(t, id, status, progress, log) ==
    IF id \notin DOMAIN t THEN t
    ELSE [t EXCEPT ![id] =
            [@ EXCEPT !.status = IF status = None THEN @ ELSE status,
                      !.progress = IF progress = NoProgress THEN @ ELSE progress,
                      !.log = IF log = None THEN @ ELSE log]]

\* DELETE FROM tasks WHERE id=?
delete_task(t, id) == [i \in DOMAIN t \ {id} |-> t[i]]

\* a clear that keeps only the processing rows
ClearAllButProcessing(t) ==
    [i \in {j \in DOMAIN t : t[j].status = PROCESSING} |-> t[i]]

\* a clear that removes the completed rows only
ClearCompletedOnly(t) ==
    [i \in {j \in DOMAIN t : t[j].status # COMPLETED} |-> t[i]]

\* DELETE FROM tasks WHERE status IN ('completed', 'failed')
clear_completed_tasks(t) ==
    [i \in {j \in DOMAIN t : t[j].status \notin {COMPLETED, FAILED}} |-> t[i]]

\* an UPDATE without the WHERE id=?: every failed row is reset
ResetEveryFailed(t, id) ==
    [i \in DOMAIN t |->
        IF i = id \/ t[i].status = FAILED
        THEN [t[i] EXCEPT !.status = PENDING, !.progress = 0, !.log = LogRetrying]
        ELSE t[i]]

\* UPDATE tasks SET status='pending', progress=0, log='重试中...' WHERE id=?
reset_task(t, id) ==
    IF id \notin DOMAIN t THEN t
    ELSE [t EXCEPT ![id] =
            [@ EXCEPT !.status = PENDING, !.progress = 0, !.log = LogRetrying]]

\* a poll that takes a row in processing as well
GetPendingOrProcessing(t) == {i \in DOMAIN t : t[i].status \in {PENDING, PROCESSING}}

\* the rows SELECT ... WHERE status='pending' LIMIT 1 can return: the query
\* has no ORDER BY, so SQL leaves open which pending row comes first
get_pending_task(t) == {i \in DOMAIN t : t[i].status = PENDING}

\* SELECT ... FROM tasks ORDER BY id DESC, as far as the page uses it: one
\* card per row, and whether task.status == TaskStatus.FAILED on it
get_all_tasks(t) == [i \in DOMAIN t |-> t[i].status = FAILED]

(***************************************************************************)
(* Pages: ui/pages/task_queue.py and ui/pages/media_library.py             *)
(***************************************************************************)
\* _add_tasks_for_selected_files: TaskDAO.add_task(f.file_path)
UIAdd(path) ==
    /\ nextId <= MaxId
    /\ \E now \in {clock, clock + 1} :
         /\ clock' = IF PathTaken(tasks, path) THEN clock ELSE now
         /\ tasks' = Insert(tasks, nextId, path, now)
    /\ addRet' = [path |-> path, ret |-> add_task_result(tasks, path)]
    /\ nextId' = IF add_task_result(tasks, path) = AddOk THEN nextId + 1 ELSE nextId
    /\ UNCHANGED <<dbEnabled, page, wpc, wtask, wcfg>>
    /\ UNCHANGED <<transVars, restVars>>

\* render_task_queue_page: tasks = TaskDAO.get_all_tasks() (every rerun of
\* the script, also the one every 3 seconds while a task is processing)
UIRender(s) ==
    /\ page' = [page EXCEPT ![s] = get_all_tasks(tasks)]
    /\ UNCHANGED <<tasks, nextId, clock, dbEnabled, addRet, wpc, wtask, wcfg>>
    /\ UNCHANGED <<transVars, restVars>>

\* _render_task_card: the retry button exists only on a card whose row was
\* FAILED when the page read it; TaskDAO.reset_task(task.id); st.rerun()
UIRetry(s, id) ==
    /\ id \in DOMAIN page[s]
    /\ page[s][id]
    /\ tasks' = reset_task(tasks, id)
    /\ page' = [page EXCEPT ![s] = get_all_tasks(tasks')]
    /\ UNCHANGED <<nextId, clock, dbEnabled, addRet, wpc, wtask, wcfg>>
    /\ UNCHANGED <<transVars, restVars>>

\* _render_task_card: the delete button exists on every card (both branches
\* of the status test); TaskDAO.delete_task(task.id); st.rerun()
UIDelete(s, id) ==
    /\ id \in DOMAIN page[s]
    /\ tasks' = delete_task(tasks, id)
    /\ page' = [page EXCEPT ![s] = get_all_tasks(tasks')]
    /\ UNCHANGED <<nextId, clock, dbEnabled, addRet, wpc, wtask, wcfg>>
    /\ UNCHANGED <<transVars, restVars>>

\* render_task_queue_page: the clear button; clear_completed_tasks(); st.rerun()
UIClear(s) ==
    /\ tasks' = clear_completed_tasks(tasks)
    /\ page' = [page EXCEPT ![s] = get_all_tasks(tasks')]
    /\ UNCHANGED <<nextId, clock, dbEnabled, addRet, wpc, wtask, wcfg>>
    /\ UNCHANGED <<transVars, restVars>>

\* the settings form saves translation.enabled
UISaveConfig(b) ==
    /\ dbEnabled # b
    /\ dbEnabled' = b
    /\ UNCHANGED <<tasks, nextId, clock, addRet, page, wpc, wtask, wcfg>>
    /\ UNCHANGED <<transVars, restVars>>

(***************************************************************************)
(* Worker loop: core/worker.py.  Every call of TaskDAO is a transaction of *)
(* its own, so every step below holds at most one of them.                 *)
(***************************************************************************)
Goto(w, pc) == wpc' = [wpc EXCEPT ![w] = pc]

Write(w, status, progress, log) ==
    tasks' = update_task(tasks, wtask[w], status, progress, log)

StoreOnly ==
    /\ UNCHANGED <<nextId, clock, dbEnabled, addRet, page, wtask, wcfg>>
    /\ UNCHANGED <<transVars, restVars>>

\* _worker_loop: config = self.config_manager.load()
WLoad(w) ==
    /\ wpc[w] = "load"
    /\ wcfg' = [wcfg EXCEPT ![w] = dbEnabled]
    /\ Goto(w, "poll")
    /\ UNCHANGED <<tasks, nextId, clock, dbEnabled, addRet, page, wtask>>
    /\ UNCHANGED <<transVars, restVars>>

\* _worker_loop: task = TaskDAO.get_pending_task(); time.sleep(5) without one
WPoll(w) ==
    /\ wpc[w] = "poll"
    /\ IF get_pending_task(tasks) = {}
       THEN /\ Goto(w, "load")
            /\ UNCHANGED wtask
       ELSE /\ \E id \in get_pending_task(tasks) : wtask' = [wtask EXCEPT ![w] = id]
            /\ Goto(w, "start")
    /\ UNCHANGED <<tasks, nextId, clock, dbEnabled, addRet, page, wcfg>>
    /\ UNCHANGED <<transVars, restVars>>

\* _process_task: update_task(task_id, PROCESSING, 0, "任务启动")
WStart(w) ==
    /\ wpc[w] = "start"
    /\ Write(w, PROCESSING, 0, LogStarted)
    /\ Goto(w, "check")
    /\ StoreOnly

\* a _process_task that writes FAILED for a missing file and goes on to the
\* extraction
WCheckFileGoesOn(w) ==
    /\ wpc[w] = "check"
    /\ \E exists \in BOOLEAN, srt \in BOOLEAN :
         IF ~exists
         THEN /\ Write(w, FAILED, NoProgress, LogFileLost)
              /\ Goto(w, "whisper")
         ELSE IF srt
         THEN /\ Write(w, None, 50, LogSrtExists)
              /\ Goto(w, "afterx")
         ELSE /\ Write(w, None, 5, LogLoadWhisper)
              /\ Goto(w, "whisper")
    /\ StoreOnly

\* _process_task: if not os.path.exists(file_path): FAILED, return;
\* _extract_subtitle: the .srt exists, or the first write before Whisper
WCheckFile(w) ==
    /\ wpc[w] = "check"
    /\ \E exists \in BOOLEAN, srt \in BOOLEAN :
         IF ~exists
         THEN /\ Write(w, FAILED, NoProgress, LogFileLost)
              /\ Goto(w, "load")
         ELSE IF srt
         THEN /\ Write(w, None, 50, LogSrtExists)
              /\ Goto(w, "afterx")
         ELSE /\ Write(w, None, 5, LogLoadWhisper)
              /\ Goto(w, "whisper")
    /\ StoreOnly

\* the progress_callback calls of WhisperService.extract_subtitle, in order
WhisperNext(pc) ==
    CASE pc = "whisper" -> {<<5, "t5">>}
      [] pc = "t5" -> {<<15, "t15">>}
      [] pc = "t15" -> {<<50, "afterx">>}
      [] OTHER -> {}

\* _extract_subtitle: progress_callback(current, total, message)
WWhisperProgress(w) ==
    /\ \E step \in WhisperNext(wpc[w]) :
         /\ Write(w, None, step[1], LogWhisper)
         /\ Goto(w, step[2])
    /\ StoreOnly

\* an _extract_subtitle that writes FAILED and returns the path all the same
WWhisperRaiseGoesOn(w) ==
    /\ wpc[w] \in {"whisper", "t5", "t15"}
    /\ Write(w, FAILED, NoProgress, LogExtractFailed)
    /\ Goto(w, "afterx")
    /\ StoreOnly

\* _extract_subtitle: except Exception: FAILED "提取失败", return None
WWhisperRaise(w) ==
    /\ wpc[w] \in {"whisper", "t5", "t15"}
    /\ Write(w, FAILED, NoProgress, LogExtractFailed)
    /\ Goto(w, "load")
    /\ StoreOnly

\* a _process_task that reads translation.enabled from the database at the
\* moment it needs it
WAfterExtractReadsDb(w) ==
    /\ wpc[w] = "afterx"
    /\ IF dbEnabled
       THEN /\ Write(w, None, 50, LogPrepare)
            /\ Goto(w, "xlate")
       ELSE /\ Write(w, COMPLETED, 100, LogDone)
            /\ Goto(w, "post")
    /\ StoreOnly

\* _process_task: translation enabled -> _translate_subtitle's first write,
\* else COMPLETED
WAfterExtract(w) ==
    /\ wpc[w] = "afterx"
    /\ IF wcfg[w]
       THEN /\ Write(w, None, 50, LogPrepare)
            /\ Goto(w, "xlate")
       ELSE /\ Write(w, COMPLETED, 100, LogDone)
            /\ Goto(w, "post")
    /\ StoreOnly

\* the progress_callback calls of translate_subtitles, in order:
\* progress = 50 + int((current / total) * 45)
TranslateNext(pc) ==
    CASE pc = "xlate" -> {<<50, "x0">>}
      [] pc = "x0" -> {<<95, "x95">>}
      [] OTHER -> {}

\* _translate_subtitle: progress_callback(current, total, message)
WTranslateProgress(w) ==
    /\ \E step \in TranslateNext(wpc[w]) :
         /\ Write(w, None, step[1], LogTranslating)
         /\ Goto(w, step[2])
    /\ StoreOnly

\* a _translate_subtitle that writes a status on success only
StatusOnSuccessOnly(success) == IF success THEN COMPLETED ELSE None

\* the status _translate_subtitle writes when translate_srt_file returned
\* (success, msg)
TranslateStatus(success) == IF success THEN COMPLETED ELSE FAILED

\* _translate_subtitle: translate_srt_file returned True after its last
\* callback and save_srt_file
WTranslateOk(w) ==
    /\ wpc[w] = "x95"
    /\ Write(w, TranslateStatus(TRUE), 100, LogDone)
    /\ Goto(w, "post")
    /\ StoreOnly

\* _translate_subtitle: translate_srt_file returned False (empty subtitle
\* file, TranslationError, any other exception)
WTranslateFail(w) ==
    /\ wpc[w] \in {"xlate", "x0", "x95"}
    /\ Write(w, TranslateStatus(FALSE), 100, LogTransFailed)
    /\ Goto(w, "post")
    /\ StoreOnly

\* _translate_subtitle: ImportError or an exception building the
\* TranslationConfig
WTranslateRaise(w) ==
    /\ wpc[w] = "xlate"
    /\ Write(w, FAILED, 100, LogTransError)
    /\ Goto(w, "post")
    /\ StoreOnly

\* an except clause of _process_task that writes no status
HandlerLeavesStatus == None

\* what the except clause of _process_task writes: FAILED "异常: ..."
HandlerStatus == FAILED

\* _process_task: _export_formats and rescan_video_subtitles return; the
\* run is over
WPostOk(w) ==
    /\ wpc[w] = "post"
    /\ Goto(w, "load")
    /\ UNCHANGED <<tasks, nextId, clock, dbEnabled, addRet, page, wtask, wcfg>>
    /\ UNCHANGED <<transVars, restVars>>

\* _process_task: _export_formats or rescan_video_subtitles raises; except
\* Exception: update_task(task_id, FAILED, log="异常: ...")
WHandler(w) ==
    /\ wpc[w] = "post"
    /\ Write(w, HandlerStatus, NoProgress, LogException)
    /\ Goto(w, "load")
    /\ StoreOnly

\* no translation is going on
TranslatorIdle ==
    /\ doc = 0
    /\ maxBatch = DefaultMaxLines
    /\ maxRetries = DefaultMaxRetries
    /\ tpc = "idle"
    /\ bi = 0
    /\ out = <<>>
    /\ stack = <<>>
    /\ resp = None
    /\ err = None

\* the threads that call TaskWorker.start or TaskWorker.stop
Callers == {"c1", "c2"}

\* the database after init_database, the loops started and none in a run
StoreIdle ==
    /\ tasks = <<>>
    /\ nextId = 1
    /\ clock = 0
    /\ dbEnabled \in BOOLEAN
    /\ addRet = [path |-> None, ret |-> None]
    /\ page = [s \in Sessions |-> <<>>]
    /\ wpc = [w \in Workers |-> "load"]
    /\ wtask = [w \in Workers |-> 0]
    /\ wcfg = [w \in Workers |-> FALSE]
    /\ tw = [running |-> TRUE, call |-> [c \in Callers |-> "idle"]]

(***************************************************************************)
(* Configuration: core/config.py and the TranslationConfig of              *)
(* core/models.py.  Of an AppConfig the model keeps translation.enabled,   *)
(* translation.max_retries and translation.timeout; of the config table    *)
(* it keeps the row enable_translation (dbEnabled).                        *)
(***************************************************************************)
\* core/models.py TranslationConfig: max_retries: int = 3, timeout: int = 180
ConfigMaxRetries == 3
ConfigTimeout == 180

\* the ConfigManager instances of two pages (render_sidebar and
\* render_settings_modal make one per script run)
Managers == {"m1", "m2"}

\* the AppConfig objects a caller can hold
Configs ==
    [enabled : BOOLEAN,
     max_retries : {ConfigMaxRetries, ConfigMaxRetries + 2},
     timeout : {ConfigTimeout, ConfigTimeout \div 3}]

\* AppConfig(): the defaults of the dataclasses
DefaultConfig ==
    [enabled |-> FALSE, max_retries |-> ConfigMaxRetries, timeout |-> ConfigTimeout]

\* ConfigManager.__init__: self._last_saved_config_dict = {}
NoCache == [enabled |-> FALSE, max_retries |-> 0, timeout |-> 0]

\* ConfigManager.load: AppConfig.from_dict(data), where data['translation']
\* holds enabled, target_language and max_lines_per_batch of the config
\* table and nothing else, so that the other fields take their defaults
load(enabled) ==
    [enabled |-> enabled, max_retries |-> ConfigMaxRetries, timeout |-> ConfigTimeout]

\* no page is saving settings, and no save has been counted
CfgIdle ==
    /\ mgr = [m \in Managers |->
                 [pc |-> "idle", cache |-> NoCache, held |-> DefaultConfig, ret |-> None]]
    /\ cfgHist = [ver |-> 0, wver |-> [w \in Workers |-> 0], enq |-> <<>>]

\* no response given, and no result yet
NoResponse == [form |-> "none", bare |-> FALSE, items |-> <<>>]
NoResult == [ok |-> FALSE, error |-> "none", why |-> "none"]

\* no audit made yet
NoQuality == <<-1, -1, [num |-> 0, den |-> 1]>>

\* no call of _parse_translation_response or check_translation_quality is
\* under examination, and the translate_subtitles of app.py is not running
RestIdle ==
    /\ response = NoResponse
    /\ expected_count = 0
    /\ translations = NoResult
    /\ original_subs = <<>>
    /\ translated_subs = <<>>
    /\ source_lang = None
    /\ quality = NoQuality
    /\ retry = 0
    /\ failed_batches = <<>>
    /\ CfgIdle

Init == StoreIdle /\ TranslatorIdle /\ RestIdle

\* one worker loop and one browser session
Next ==
    \/ \E path \in Paths : UIAdd(path)
    \/ UIRender("s1")
    \/ \E id \in 1..MaxId : UIRetry("s1", id)
    \/ \E id \in 1..MaxId : UIDelete("s1", id)
    \/ UIClear("s1")
    \/ \E b \in BOOLEAN : UISaveConfig(b)
    \/ WLoad("w1")
    \/ WPoll("w1")
    \/ WStart("w1")
    \/ WCheckFile("w1")
    \/ WWhisperProgress("w1")
    \/ WWhisperRaise("w1")
    \/ WAfterExtract("w1")
    \/ WTranslateProgress("w1")
    \/ WTranslateOk("w1")
    \/ WTranslateFail("w1")
    \/ WTranslateRaise("w1")
    \/ WPostOk("w1")
    \/ WHandler("w1")

Spec == Init /\ [][Next]_vars

\* several worker loops and several browser sessions on one media file
NextMulti ==
    \/ UIAdd(MultiPath)
    \/ \E s \in Sessions : UIRender(s)
    \/ \E s \in Sessions, id \in 1..MaxId : UIRetry(s, id)
    \/ \E w \in Workers : WLoad(w)
    \/ \E w \in Workers : WPoll(w)
    \/ \E w \in Workers : WStart(w)
    \/ \E w \in Workers : WCheckFile(w)
    \/ \E w \in Workers : WWhisperProgress(w)
    \/ \E w \in Workers : WWhisperRaise(w)
    \/ \E w \in Workers : WAfterExtract(w)
    \/ \E w \in Workers : WTranslateProgress(w)
    \/ \E w \in Workers : WTranslateOk(w)
    \/ \E w \in Workers : WTranslateFail(w)
    \/ \E w \in Workers : WTranslateRaise(w)
    \/ \E w \in Workers : WPostOk(w)
    \/ \E w \in Workers : WHandler(w)

SpecMulti == Init /\ [][NextMulti]_vars

(***************************************************************************)
(* Adaptive batch translator: services/translator.py.  A batch is the      *)
(* slice entries[lo:hi] of the document; a translated batch is the         *)
(* sequence of the slices that came back from one channel call each.       *)
(***************************************************************************)
\* how a channel call can end: the response parses and validates (with
\* translations, or with the source texts); it holds
\* an ellipsis outside a string; json.loads fails after both repairs; the
\* array has another length than expected; an item is no record, has no
\* translation or a wrong line; the call itself raises
Responses == {"ok", "echo", "ellipsis", "badjson", "count", "item", "apierror"}

\* the responses that parse and validate: translations ("ok"), or the source
\* texts sent back unchanged ("echo")
Accepted == {"ok", "echo"}

\* zip(entries, translations): the translated entries of entries[lo:hi],
\* with the number of them whose text is a translation
Translated(f, kind) == <<f.lo, f.hi, IF kind = "ok" THEN f.hi - f.lo ELSE 0>>

\* _translate_batch: "省略格式" in error_msg or "..." in error_msg, on the
\* messages _parse_translation_response builds: the ellipsis message and the
\* count message hold "省略格式", the JSON message ends its preview in "..."
IsElided(kind) == kind \in {"ellipsis", "badjson", "count"}

\* _translate_batch: if len(entries) > 100 and retry_count >= 2
BisectsOnEntry(size, rc) == size > SplitThreshold /\ rc >= SplitRetryCount

\* a re-entry on elision that has no floor
ReentersAlways(size) == TRUE

\* _translate_batch: if len(entries) > 50 (inside the elision branch)
ReentersOnElision(size) == size > BisectFloor

Frame(lo, hi, cb, ca, rc) ==
    [lo |-> lo, hi |-> hi, cb |-> cb, ca |-> ca, rc |-> rc,
     attempt |-> 0, pc |-> "enter", acc |-> <<>>]

Size(f) == f.hi - f.lo

\* mid = len(entries) // 2
Mid(f) == f.lo + (Size(f) \div 2)

\* self._translate_batch(entries[:mid], context_before, entries[mid].text, 0)
FirstHalf(f) == Frame(f.lo, Mid(f), f.cb, Mid(f), 0)

\* a second half that starts one entry late: entries[mid+1:]
SecondHalfSkipsOne(f) == Frame(Mid(f) + 1, f.hi, Mid(f) - 1, f.ca, 0)

\* self._translate_batch(entries[mid:], entries[mid-1].text, context_after, 0)
SecondHalf(f) == Frame(Mid(f), f.hi, Mid(f) - 1, f.ca, 0)

\* self._translate_batch(entries, context_before, context_after, retry_count + 99)
SameBatch(f) == Frame(f.lo, f.hi, f.cb, f.ca, f.rc + RetryBump)

Top == stack[Len(stack)]
Below(stk) == SubSeq(stk, 1, Len(stk) - 1)
SetTop(stk, f) == [stk EXCEPT ![Len(stk)] = f]

\* a frame returns r: what its callers do with it, up to the next call or
\* up to translate_subtitles
RECURSIVE Deliver(_, _)
Deliver(stk, r) ==
    IF stk = <<>> THEN [stack |-> <<>>, ret |-> r, top |-> TRUE]
    ELSE LET f == stk[Len(stk)] IN
         CASE f.pc = "tail" -> Deliver(Below(stk), r)
           [] f.pc = "split1" ->
                [stack |-> Append(SetTop(stk, [f EXCEPT !.pc = "split2", !.acc = r]),
                                  SecondHalf(f)),
                 ret |-> <<>>, top |-> FALSE]
           [] f.pc = "split2" -> Deliver(Below(stk), f.acc \o r)
           [] OTHER -> [stack |-> stk, ret |-> r, top |-> FALSE]

\* the progress_callback of _translate_subtitle, when the translator was
\* built with one: progress = 50 + int((current / total) * 45)
Progress(current, total) ==
    IF wpc["w1"] = "xrun"
    THEN tasks' = update_task(tasks, wtask["w1"], None,
                              50 + ((current * 45) \div total), LogTranslating)
    ELSE UNCHANGED tasks

TFrame == UNCHANGED <<nextId, clock, dbEnabled, addRet, page, wpc, wtask, wcfg,
                      doc, maxBatch, maxRetries, restVars>>

\* translate_subtitles receives what the outermost _translate_batch returned
Returned(r) ==
    /\ stack' = <<>>
    /\ out' = out \o r
    /\ err' = err
    /\ IF tpc = "single"
       THEN /\ tpc' = "done"
            /\ bi' = bi
            /\ Progress(doc, doc)
       ELSE /\ tpc' = "loop"
            /\ bi' = bi + maxBatch
            /\ UNCHANGED tasks

\* an exception leaves _translate_batch: the calls of lines 306, 307 and 347
\* are outside every try block that could catch it, so it passes through
\* every frame; translate_subtitles raises TranslationError
Raised(e) ==
    /\ stack' = <<>>
    /\ tpc' = "failed"
    /\ err' = e
    /\ UNCHANGED <<bi, out, tasks>>

\* a call of _translate_batch from a frame of _translate_batch
Call(stk, f) ==
    IF Len(stk) >= RecursionLimit
    THEN Raised("RecursionError")
    ELSE /\ stack' = Append(stk, f)
         /\ UNCHANGED <<tpc, bi, out, err, tasks>>

\* translate_subtitles: empty document, a document of one batch, or the loop
TStart ==
    /\ tpc = "start"
    /\ resp' = resp
    /\ IF doc = 0
       THEN /\ tpc' = "done"
            /\ UNCHANGED <<bi, out, stack, err, tasks>>
       ELSE IF doc <= maxBatch
       THEN /\ tpc' = "single"
            /\ stack' = <<Frame(0, doc, NoContext, NoContext, 0)>>
            /\ Progress(0, doc)
            /\ UNCHANGED <<bi, out, err>>
       ELSE /\ tpc' = "loop"
            /\ UNCHANGED <<bi, out, stack, err, tasks>>
    /\ TFrame

\* a slice that stops one entry early: entries[i:i+max_batch-1]
BatchEndShort(i, b, n) == IF i + b - 1 < n THEN i + b - 1 ELSE n

\* batch = entries[i:i+max_batch]: where the slice ends in a list of n entries
BatchEnd(i, b, n) == IF i + b < n THEN i + b ELSE n

\* a translate_subtitles that takes the last entry of the batch itself as
\* context_after: entries[i+max_batch-1].text
TNextBatchOwnContext ==
    /\ tpc = "loop"
    /\ resp' = resp
    /\ IF bi < doc
       THEN /\ tpc' = "batch"
            /\ stack' = <<Frame(bi,
                                BatchEnd(bi, maxBatch, doc),
                                IF bi > 0 THEN bi - 1 ELSE NoContext,
                                IF bi + maxBatch < doc THEN bi + maxBatch - 1 ELSE NoContext,
                                0)>>
            /\ Progress(bi, doc)
            /\ UNCHANGED <<bi, out, err>>
       ELSE /\ tpc' = "done"
            /\ Progress(doc, doc)
            /\ UNCHANGED <<bi, out, stack, err>>
    /\ TFrame

\* translate_subtitles: for i in range(0, total_lines, max_batch)
TNextBatch ==
    /\ tpc = "loop"
    /\ resp' = resp
    /\ IF bi < doc
       THEN /\ tpc' = "batch"
            /\ stack' = <<Frame(bi,
                                BatchEnd(bi, maxBatch, doc),
                                IF bi > 0 THEN bi - 1 ELSE NoContext,
                                IF bi + maxBatch < doc THEN bi + maxBatch ELSE NoContext,
                                0)>>
            /\ Progress(bi, doc)
            /\ UNCHANGED <<bi, out, err>>
       ELSE /\ tpc' = "done"
            /\ Progress(doc, doc)
            /\ UNCHANGED <<bi, out, stack, err>>
    /\ TFrame

\* _translate_batch, lines 302-310: split into two halves, or go on to the
\* attempts
TEnter ==
    /\ stack # <<>>
    /\ Top.pc = "enter"
    /\ resp' = resp
    /\ IF BisectsOnEntry(Size(Top), Top.rc)
       THEN Call(SetTop(stack, [Top EXCEPT !.pc = "split1"]), FirstHalf(Top))
       ELSE /\ stack' = SetTop(stack, [Top EXCEPT !.pc = "try"])
            /\ UNCHANGED <<tpc, bi, out, err, tasks>>
    /\ TFrame

\* _translate_batch, lines 313-363: one attempt
TAttempt ==
    /\ stack # <<>>
    /\ Top.pc = "try"
    /\ \E kind \in Responses :
         /\ resp' = kind
         /\ IF kind \in Accepted
            THEN LET d == Deliver(Below(stack), <<Translated(Top, kind)>>) IN
                 IF d.top THEN Returned(d.ret)
                 ELSE /\ stack' = d.stack
                      /\ UNCHANGED <<tpc, bi, out, err, tasks>>
            ELSE IF kind # "apierror" /\ IsElided(kind) /\ ReentersOnElision(Size(Top))
            THEN Call(SetTop(stack, [Top EXCEPT !.pc = "tail"]), SameBatch(Top))
            ELSE IF Top.attempt < maxRetries - 1
            THEN /\ stack' = SetTop(stack, [Top EXCEPT !.attempt = @ + 1])
                 /\ UNCHANGED <<tpc, bi, out, err, tasks>>
            ELSE Raised(IF kind = "apierror" THEN "APIError" ELSE "ParseError")
    /\ TFrame

\* a translator without progress callback on a document
InitT ==
    /\ StoreIdle
    /\ RestIdle
    /\ doc \in DocLens
    /\ maxBatch \in BatchSizes
    /\ maxRetries \in 1..DefaultMaxRetries
    /\ tpc = "start"
    /\ bi = 0
    /\ out = <<>>
    /\ stack = <<>>
    /\ resp = None
    /\ err = None

NextT == TStart \/ TNextBatch \/ TEnter \/ TAttempt

SpecT == InitT /\ [][NextT]_vars

\* the same translator on short documents with small max_lines_per_batch
InitPlan ==
    /\ StoreIdle
    /\ RestIdle
    /\ doc \in 0..PlanDocMax
    /\ maxBatch \in 1..PlanBatchMax
    /\ maxRetries = DefaultMaxRetries
    /\ tpc = "start"
    /\ bi = 0
    /\ out = <<>>
    /\ stack = <<>>
    /\ resp = None
    /\ err = None

SpecPlan == InitPlan /\ [][NextT]_vars

(***************************************************************************)
(* One worker loop whose translation step runs the translator above.       *)
(***************************************************************************)
\* _translate_subtitle calls translate_srt_file: parse_srt_file, an empty
\* result returns (False, ...), else SubtitleTranslator(config,
\* progress_callback).translate_subtitles(entries)
WTranslateCall(w) ==
    /\ wpc[w] = "xlate"
    /\ \E n \in RunDocs, b \in RunBatchSizes :
         IF n = 0
         THEN /\ Write(w, TranslateStatus(FALSE), 100, LogTransFailed)
              /\ Goto(w, "post")
              /\ UNCHANGED transVars
         ELSE /\ doc' = n
              /\ maxBatch' = b
              /\ maxRetries' = DefaultMaxRetries
              /\ tpc' = "start"
              /\ bi' = 0
              /\ out' = <<>>
              /\ stack' = <<>>
              /\ resp' = None
              /\ err' = None
              /\ Goto(w, "xrun")
              /\ UNCHANGED tasks
    /\ UNCHANGED <<nextId, clock, dbEnabled, addRet, page, wtask, wcfg, restVars>>

\* translate_srt_file returns (True, ...) after save_srt_file, or (False, ...)
\* on TranslationError; _translate_subtitle writes COMPLETED or FAILED
WTranslateReturn(w) ==
    /\ wpc[w] = "xrun"
    /\ tpc \in {"done", "failed"}
    /\ Write(w, TranslateStatus(tpc = "done"), 100,
             IF tpc = "done" THEN LogDone ELSE LogTransFailed)
    /\ Goto(w, "post")
    /\ doc' = 0
    /\ maxBatch' = DefaultMaxLines
    /\ tpc' = "idle"
    /\ bi' = 0
    /\ out' = <<>>
    /\ resp' = None
    /\ UNCHANGED <<nextId, clock, dbEnabled, addRet, page, wtask, wcfg,
                   maxRetries, stack, err, restVars>>

\* the steps of the worker thread
WorkerRun ==
    \/ WLoad("w1")
    \/ WPoll("w1")
    \/ WStart("w1")
    \/ WCheckFile("w1")
    \/ WWhisperProgress("w1")
    \/ WWhisperRaise("w1")
    \/ WAfterExtract("w1")
    \/ WTranslateCall("w1")
    \/ TStart
    \/ TNextBatch
    \/ TEnter
    \/ TAttempt
    \/ WTranslateReturn("w1")
    \/ WTranslateRaise("w1")
    \/ WPostOk("w1")
    \/ WHandler("w1")

NextRun ==
    \/ UIAdd(MultiPath)
    \/ UIRender("s1")
    \/ \E id \in 1..MaxId : UIRetry("s1", id)
    \/ \E id \in 1..MaxId : UIDelete("s1", id)
    \/ WorkerRun

\* the worker is a daemon thread that runs as long as the process: it always
\* takes its next step
SpecRun == Init /\ [][NextRun]_vars /\ WF_vars(WorkerRun)

\* one worker loop, several browser sessions on one media file
NextPages ==
    \/ UIAdd(MultiPath)
    \/ \E s \in Sessions : UIRender(s)
    \/ \E s \in Sessions, id \in 1..MaxId : UIRetry(s, id)
    \/ WLoad("w1")
    \/ WPoll("w1")
    \/ WStart("w1")
    \/ WCheckFile("w1")
    \/ WWhisperProgress("w1")
    \/ WWhisperRaise("w1")
    \/ WAfterExtract("w1")
    \/ WTranslateProgress("w1")
    \/ WTranslateOk("w1")
    \/ WTranslateFail("w1")
    \/ WTranslateRaise("w1")
    \/ WPostOk("w1")
    \/ WHandler("w1")

SpecPages == Init /\ [][NextPages]_vars

(***************************************************************************)
(* Properties of the job store and the worker loop                         *)
(***************************************************************************)
RowsOf(t, path) == {i \in DOMAIN t : t[i].file_path = path}

InRun(w) == wpc[w] \notin {"load", "poll", "start"}

\* C1: no two rows of tasks have the same file_path; add_task(path) while a
\* row for path exists (in any status) returns the duplicate rejection and
\* leaves the table unchanged, and a successful add_task(path) leaves exactly
\* one row for path, so that a second add_task(path) is rejected.
C1_UniqueFilePath ==
    /\ [](\A i, j \in DOMAIN tasks :
            tasks[i].file_path = tasks[j].file_path => i = j)
    /\ [][\A path \in Paths :
            UIAdd(path) =>
               /\ addRet'.path = path
               /\ IF RowsOf(tasks, path) # {}
                  THEN addRet'.ret = AddDuplicate /\ tasks' = tasks
                  ELSE addRet'.ret = AddOk /\ Cardinality(RowsOf(tasks', path)) = 1]_vars

\* C1 witness: add_task was rejected as a duplicate of a row that is there,
\* in a status other than pending
C1_Witness ==
    /\ addRet.ret = AddDuplicate
    /\ \E i \in DOMAIN tasks :
         tasks[i].file_path = addRet.path /\ tasks[i].status = COMPLETED

\* C2: with several worker loops no job is claimed twice: two loops never
\* run the same job, and a loop that starts a run of a job that is no longer
\* pending changes nothing of it.
C2_NoDoubleClaim ==
    /\ [](\A w, v \in Workers :
            (w # v /\ InRun(w) /\ InRun(v)) => wtask[w] # wtask[v])
    /\ [][\A w \in Workers :
            (WStart(w) /\ wtask[w] \in DOMAIN tasks
               /\ tasks[wtask[w]].status # PENDING) => tasks' = tasks]_vars

\* C4: once the worker has written completed for the job of its run, the
\* rest of the run (export, rescan) leaves the job completed.
C4_CompletedStays ==
    [][\A w \in Workers :
         (/\ wpc[w] = "post"
          /\ wtask[w] \in DOMAIN tasks
          /\ tasks[wtask[w]].status = COMPLETED
          /\ wpc'[w] # wpc[w])
         => (wtask[w] \in DOMAIN tasks' /\ tasks'[wtask[w]].status = COMPLETED)]_vars

\* C5: reset_task changes a job only when it is failed: on a job that is
\* pending, processing or completed it leaves the row as it is, and no job
\* goes from processing or completed to pending.
C5_ResetOnlyFailed ==
    /\ [][\A s \in Sessions, id \in DOMAIN tasks :
            (UIRetry(s, id) /\ tasks[id].status # FAILED) => tasks' = tasks]_vars
    /\ [][\A id \in DOMAIN tasks \cap DOMAIN tasks' :
            tasks[id].status \in {PROCESSING, COMPLETED}
                => tasks'[id].status # PENDING]_vars

C7_PollIsFifo ==
    [][\A w \in Workers :
         (wpc[w] = "poll" /\ wpc'[w] = "start") =>
            \A j \in DOMAIN tasks :
               tasks[j].status = PENDING =>
                  tasks[wtask'[w]].created_at <= tasks[j].created_at]_vars

\* C3: every job the worker moves to processing eventually is completed or
\* failed (or its row is deleted), whatever the channel answers, as long as
\* the worker thread keeps taking steps
C3_EventuallyTerminal ==
    \A id \in 1..MaxId :
        (id \in DOMAIN tasks /\ tasks[id].status = PROCESSING)
            ~> (id \notin DOMAIN tasks \/ tasks[id].status \in {COMPLETED, FAILED})

\* a run whose translation ended in the interpreter's recursion limit has
\* failed its job
C3_Witness ==
    /\ err = "RecursionError"
    /\ wpc["w1"] = "post"
    /\ wtask["w1"] \in DOMAIN tasks
    /\ tasks[wtask["w1"]].status = FAILED
    /\ tasks[wtask["w1"]].log = LogTransFailed

\* the halvings that bring a batch size down to the floor
RECURSIVE Halvings(_)
Halvings(n) == IF n <= BisectFloor THEN 0 ELSE 1 + Halvings((n + 1) \div 2)

\* C8: the nesting of _translate_batch is bounded by the halvings that bring
\* max_lines_per_batch down to the 50-line floor (a halving counted with the
\* re-entry that triggers it, below the top-level call)
C8_DepthBounded == Len(stack) <= 1 + 2 * Halvings(maxBatch)

\* C9: a batch of more than 50 entries whose attempt failed as truncated is
\* not sent to the channel again at its full size: the frame re-entered for
\* it splits, it makes no attempt
C9_NotResentWhole ==
    \A k \in 2..Len(stack) : stack[k-1].pc = "tail" => stack[k].pc # "try"

\* C10: a batch of at most 50 entries is never bisected and never re-entered,
\* and an elided response on it is followed by the next attempt on the same
\* batch while attempts are left
C10_FloorNeverSplit ==
    /\ [](\A k \in 1..Len(stack) :
            Size(stack[k]) <= BisectFloor =>
                /\ stack[k].pc \in {"enter", "try"}
                /\ stack[k].attempt < maxRetries)
    /\ [][(/\ TAttempt
           /\ Size(Top) <= BisectFloor
           /\ IsElided(resp')
           /\ Top.attempt < maxRetries - 1)
          => stack' = SetTop(stack, [Top EXCEPT !.attempt = @ + 1])]_vars

\* a 40-entry batch on a later attempt after an ellipsis response
C10_Witness ==
    /\ stack # <<>>
    /\ Size(Top) = 40
    /\ Top.pc = "try"
    /\ Top.attempt >= 1
    /\ resp = "ellipsis"

(***************************************************************************)
(* Properties of the adaptive batch translator                             *)
(***************************************************************************)
\* the failures _parse_translation_response raises after its ellipsis test:
\* JSON the repairs cannot fix, a wrong item count, a bad item
GenericFailures == {"badjson", "count", "item"}

\* C11: a generic parse or validation failure is never handled as
\* truncation: whatever the batch size, the attempt that met it is followed
\* by the next attempt on the same frame while attempts are left, and by the
\* failure of the batch when none is left; no frame is entered for it.
C11_GenericNeverTruncation ==
    [][(TAttempt /\ resp' \in GenericFailures) =>
          IF Top.attempt < maxRetries - 1
          THEN stack' = SetTop(stack, [Top EXCEPT !.attempt = @ + 1])
          ELSE stack' = <<>> /\ tpc' = "failed" /\ err' = "ParseError"]_vars

\* the channel calls made so far for the batch of frame k, by frame k and by
\* the frames below it that passed the same batch on
RECURSIVE Sent(_, _)
Sent(stk, k) ==
    (IF stk[k].pc = "tail" THEN stk[k].attempt + 1 ELSE stk[k].attempt)
    + (IF k > 1 /\ stk[k-1].pc = "tail" THEN Sent(stk, k - 1) ELSE 0)

\* the exception class of a failed attempt
ErrorOf(kind) == IF kind = "apierror" THEN "APIError" ELSE "ParseError"

\* C12: a batch that is not bisected is sent to the channel at most
\* max_retries times: a frame about to call the channel has fewer than
\* max_retries calls for its batch behind it, a success ends the frame, and
\* the batch fails with the error of its last attempt.
C12_AtMostMaxRetries ==
    /\ [](stack # <<>> /\ Top.pc = "try" => Sent(stack, Len(stack)) < maxRetries)
    /\ [][(TAttempt /\ resp' \in Accepted) =>
             \/ stack' = <<>>
             \/ /\ Len(stack') <= Len(stack)
                /\ stack'[Len(stack')].lo = Top.hi]_vars
    /\ [][(TAttempt /\ tpc' = "failed" /\ err' # "RecursionError") =>
             (err' = ErrorOf(resp') /\ Top.attempt = maxRetries - 1)]_vars

\* C13: when a batch of the document has used its last attempt on a channel
\* error or a generic failure, translate_subtitles does not fail: the batch's
\* entries are put in the output at the batch's position and the loop goes
\* on with the next batch.
C13_FailedBatchSubstituted ==
    [][(/\ TAttempt
        /\ Len(stack) = 1
        /\ Top.attempt = maxRetries - 1
        /\ resp' \in {"apierror", "item"})
       => /\ tpc' # "failed"
          /\ Len(out') = Len(out) + 1
          /\ out'[Len(out')][1] = Top.lo
          /\ out'[Len(out')][2] = Top.hi]_vars

\* the first halves that frames of the stack hold while their second half
\* is translated, bottom frame first
RECURSIVE Accs(_)
Accs(stk) == IF stk = <<>> THEN <<>> ELSE Accs(Below(stk)) \o stk[Len(stk)].acc

\* the translated entries so far, in the order in which they will be returned
Done == out \o Accs(stack)

\* the slices of seq follow each other from position 0 without gap or overlap
Contiguous(seq) ==
    \A i \in 1..Len(seq) :
        /\ seq[i][1] < seq[i][2]
        /\ seq[i][1] = IF i = 1 THEN 0 ELSE seq[i-1][2]

EndOf(seq) == IF seq = <<>> THEN 0 ELSE seq[Len(seq)][2]

\* C14: the translated entries are the source's positions in order, without
\* gap, repetition or reordering; the batch sent to the channel starts where
\* the translated entries end (batches go out in document order); and the
\* document returned has the length of the source.
C14_OrderPreserved ==
    /\ Contiguous(Done)
    /\ (stack # <<>> /\ Top.pc \in {"enter", "try"}) => Top.lo = EndOf(Done)
    /\ tpc = "done" => (stack = <<>> /\ EndOf(out) = doc)

\* a 120-entry document returned as the two halves of its bisected batch
C14_Witness ==
    /\ tpc = "done"
    /\ doc = 120
    /\ maxBatch = 500
    /\ Len(out) = 2
    /\ out[1][2] = 60

\* C15: the batches translate_subtitles plans, in order, are the document's
\* entries: each batch starts where the one before ended (the first at 0),
\* is not empty, holds at most max_lines_per_batch entries, and the last one
\* ends at the end of the document; the empty document gets no batch and no
\* channel call.
C15_PlanCoversDocument ==
    /\ Contiguous(out)
    /\ stack # <<>> =>
          /\ stack[1].lo = EndOf(out)
          /\ stack[1].lo < stack[1].hi
          /\ stack[1].hi <= doc
          /\ Size(stack[1]) <= maxBatch
    /\ tpc = "done" => (stack = <<>> /\ EndOf(out) = doc)
    /\ doc = 0 => (stack = <<>> /\ out = <<>> /\ resp = None)

\* five entries planned as batches of 2, 2 and 1
C15_Witness ==
    /\ tpc = "done"
    /\ doc = 5
    /\ maxBatch = 2
    /\ Len(out) = 3
    /\ out[3][1] = 4

(***************************************************************************)
(* Response codec: SubtitleTranslator._parse_translation_response.  A      *)
(* response is the text of a JSON array, given by its outer form, by       *)
(* whether an ellipsis stands between its items, and by its items.         *)
(***************************************************************************)
\* values of the translation field: plain, with blanks around it, with an
\* ellipsis inside the string, with an ellipsis right after the opening quote
Texts == {"abc", " abc ", "Wait...", "...and"}

\* str.strip()
strip(t) == IF t = " abc " THEN "abc" ELSE t

\* '...' in the text
HasDots(t) == t \in {"Wait...", "...and"}

\* the text, written as a JSON string, holds '"...'
QuoteDots(t) == t = "...and"

\* an item of the array: a record with or without "translation" and "line"
\* (line 0: no line field), or something that is no record
Items ==
    [isdict : {TRUE}, translation : Texts \cup {None}, line : 0..MaxItems]
    \cup {[isdict |-> FALSE, translation |-> None, line |-> 0]}

\* the response as sent: a bare array, an array in a markdown fence, an
\* array ending in ",]", an array without its closing bracket, a JSON object,
\* text that is no JSON
Forms == {"array", "fenced", "trailing_comma", "unclosed", "object", "garbage"}

ItemSeqs == UNION {[1..n -> Items] : n \in 0..MaxItems}

ResponseTexts == [form : Forms, bare : BOOLEAN, items : ItemSeqs]

\* '...' in response
ContainsDots(r) ==
    r.bare \/ \E i \in 1..Len(r.items) :
                 r.items[i].translation # None /\ HasDots(r.items[i].translation)

\* '"...' in response
ContainsQuoteDots(r) ==
    \E i \in 1..Len(r.items) :
        r.items[i].translation # None /\ QuoteDots(r.items[i].translation)

\* json.loads gives a value, at once or after one of the two repairs
Decodes(r) == ~r.bare /\ r.form # "garbage"

ParseError(why) == [ok |-> FALSE, error |-> "ParseError", why |-> why]

\* a line test that accepts every line
LineIgnored(item, i) == TRUE

\* line_num = item.get('line', i+1); line_num != i+1 raises
LineMatches(item, i) == item.line = 0 \/ item.line = i

\* the checks of one item of the array, position i (1-based)
ItemOk(item, i) ==
    /\ item.isdict
    /\ item.translation # None
    /\ LineMatches(item, i)

parse_translation_response(r, n) ==
    IF ContainsDots(r) /\ ~ContainsQuoteDots(r) THEN ParseError("ellipsis")
    ELSE IF ~Decodes(r) THEN ParseError("badjson")
    ELSE IF r.form = "object" THEN ParseError("notlist")
    ELSE IF Len(r.items) # n THEN ParseError("count")
    ELSE IF \E i \in 1..Len(r.items) : ~ItemOk(r.items[i], i) THEN ParseError("item")
    ELSE [ok |-> TRUE,
          value |-> [i \in 1..Len(r.items) |-> strip(r.items[i].translation)]]

\* a call of _parse_translation_response on a response
InitParse ==
    /\ StoreIdle
    /\ dbEnabled = FALSE
    /\ TranslatorIdle
    /\ response \in ResponseTexts
    /\ expected_count \in 0..MaxItems
    /\ translations = NoResult
    /\ original_subs = <<>>
    /\ translated_subs = <<>>
    /\ source_lang = None
    /\ quality = NoQuality
    /\ retry = 0
    /\ failed_batches = <<>>
    /\ CfgIdle

ParseCall ==
    /\ response # NoResponse
    /\ translations = NoResult
    /\ translations' = parse_translation_response(response, expected_count)
    /\ UNCHANGED <<cfgVars, tw, storeVars, transVars, response, expected_count, auditVars,
                   legacyVars>>

SpecParse == InitParse /\ [][ParseCall]_vars

\* C16: the truncation failure is raised exactly when the response holds an
\* ellipsis outside every quoted string; a well-formed array of n items with
\* '...' only inside its strings decodes to its n translations in order.
C16_TruncationIffBareEllipsis ==
    translations # NoResult =>
        /\ (translations = ParseError("ellipsis")) <=> response.bare
        /\ (/\ response.form = "array"
            /\ ~response.bare
            /\ Len(response.items) = expected_count
            /\ \A i \in 1..Len(response.items) : ItemOk(response.items[i], i))
           => /\ translations.ok
              /\ translations.value =
                    [i \in 1..expected_count |-> strip(response.items[i].translation)]

\* C17: the call raises ParseError, or returns a list of expected_count
\* elements, element i the trimmed translation of item i, and then every
\* item's declared line is its 1-based position.
C17_LengthOrError ==
    translations # NoResult =>
        \/ ~translations.ok /\ translations.error = "ParseError"
        \/ /\ translations.ok
           /\ Len(translations.value) = expected_count
           /\ Len(response.items) = expected_count
           /\ \A i \in 1..expected_count :
                 /\ translations.value[i] = strip(response.items[i].translation)
                 /\ response.items[i].line \in {0, i}

\* two items decoded, the second one trimmed
C17_Witness ==
    /\ translations # NoResult
    /\ translations.ok
    /\ expected_count = 2
    /\ translations.value = <<"...and", "abc">>
    /\ response.items[2].translation = " abc "
    /\ response.items[2].line = 2


(***************************************************************************)
(* The pass rate of a finished translation                                 *)
(***************************************************************************)
\* check_translation_quality over the returned slices: a line passes when
\* its translation is not the source text, so the passing lines of a slice
\* are its third component
RECURSIVE Passed(_)
Passed(seq) == IF seq = <<>> THEN 0 ELSE seq[1][3] + Passed(Tail(seq))

\* success_rate >= 0.80, in hundredths
MeetsPartial(s, n) == s * 100 >= 80 * n

\* C18: a job whose translation returned a document of the source's length
\* n > 0 with s lines passing the audit ends completed exactly when
\* s/n >= 0.80, and failed otherwise; a translation that mostly echoes the
\* source never ends completed.
C18_CompletedIffPassRate ==
    [][(/\ WTranslateReturn("w1")
        /\ tpc = "done"
        /\ doc > 0
        /\ wtask["w1"] \in DOMAIN tasks)
       => /\ tasks'[wtask["w1"]].status \in {COMPLETED, FAILED}
          /\ tasks'[wtask["w1"]].status = COMPLETED
                <=> MeetsPartial(Passed(out), doc)]_vars


(***************************************************************************)
(* The quality audit: check_translation_quality of app.py                  *)
(***************************************************************************)
\* the subtitles a document may hold
MaxSubs == 2

\* the texts of the audited lines: plain texts, one of them with blanks
\* around it, a text with a kana character and one with a hangul character
AuditTexts == {"abc", " abc ", "xyz", "kana", "hangul"}

\* the source language hints
Langs == {"auto", "ja", "jpn", "ko", "kor"}

\* re.search(r'[\u3040-\u309f\u30a0-\u30ff]', trans_text)
HasKana(t) == t = "kana"

\* re.search(r'[\uac00-\ud7af]', trans_text)
HasHangul(t) == t = "hangul"

\* success_count / total if total > 0 else 0, kept as a fraction
Rate(s, total) ==
    IF total > 0 /\ s > 0 THEN [num |-> s, den |-> total]
    ELSE [num |-> 0, den |-> 1]

\* an audit that takes every pair of documents as of equal length
LengthsNeverDiffer(o, t) == FALSE

\* len(original_subs) != len(translated_subs)
LengthsDiffer(o, t) == Len(o) # Len(t)

\* an audit that skips the comparison with the source text
LinePassesUncompared(orig, trans, lang) ==
    /\ ~(lang \in {"ja", "jpn"} /\ HasKana(strip(trans)))
    /\ ~(lang \in {"ko", "kor"} /\ HasHangul(strip(trans)))

\* the body of the for loop: TRUE when the pair counts as a success
LinePasses(orig, trans, lang) ==
    /\ strip(orig) # strip(trans)
    /\ ~(lang \in {"ja", "jpn"} /\ HasKana(strip(trans)))
    /\ ~(lang \notin {"ja", "jpn"} /\ lang \in {"ko", "kor"} /\ HasHangul(strip(trans)))

\* the pairs zip(original_subs, translated_subs) yields
Zipped(o, t) == 1..(IF Len(o) < Len(t) THEN Len(o) ELSE Len(t))

check_translation_quality(o, t, lang) ==
    IF LengthsDiffer(o, t) THEN <<0, Len(o), Rate(0, 1)>>
    ELSE LET success_count == Cardinality({i \in Zipped(o, t) : LinePasses(o[i], t[i], lang)})
             fail_count == Cardinality({i \in Zipped(o, t) : ~LinePasses(o[i], t[i], lang)})
         IN  <<success_count, fail_count, Rate(success_count, Len(o))>>

\* the documents of at most MaxSubs lines
SubDocs == UNION {[1..n -> AuditTexts] : n \in 0..MaxSubs}

\* the audit about to be called on some pair of documents
InitAudit ==
    /\ StoreIdle
    /\ dbEnabled = FALSE
    /\ TranslatorIdle
    /\ response = NoResponse
    /\ expected_count = 0
    /\ translations = NoResult
    /\ original_subs \in SubDocs
    /\ translated_subs \in SubDocs
    /\ source_lang \in Langs
    /\ quality = NoQuality
    /\ retry = 0
    /\ failed_batches = <<>>
    /\ CfgIdle

AuditCall ==
    /\ quality = NoQuality
    /\ quality' = check_translation_quality(original_subs, translated_subs, source_lang)
    /\ UNCHANGED <<cfgVars, tw, storeVars, transVars, parseVars, legacyVars,
                   original_subs, translated_subs, source_lang>>

SpecAudit == InitAudit /\ [][AuditCall]_vars

\* C20: on documents of different lengths check_translation_quality returns
\* (0, len(source), 0.0), whatever the texts and the source language.
C20_LengthMismatchIsAllFailed ==
    (quality # NoQuality /\ Len(original_subs) # Len(translated_subs))
        => quality = <<0, Len(original_subs), Rate(0, 1)>>

\* two lines against one line that is a good translation of the first
C20_Witness ==
    /\ quality = <<0, 2, Rate(0, 1)>>
    /\ Len(original_subs) = 2
    /\ Len(translated_subs) = 1
    /\ LinePasses(original_subs[1], translated_subs[1], source_lang)


\* the lines of the audited pair that are untranslated, and those that leak
\* the script of the hinted source language
Untranslated == {i \in 1..Len(original_subs) :
                    strip(original_subs[i]) = strip(translated_subs[i])}
Leaking == {i \in 1..Len(original_subs) :
               \/ source_lang \in {"ja", "jpn"} /\ HasKana(translated_subs[i])
               \/ source_lang \in {"ko", "kor"} /\ HasHangul(translated_subs[i])}

\* C21: on documents of equal length every line is counted exactly once
\* (success + fail = number of source lines, ratio = success / length); a
\* line equal to its source is failed whatever the hint, a line with kana
\* under a Japanese hint or hangul under a Korean hint is failed, and every
\* other line is a success.
C21_EveryLineCountedOnce ==
    (quality # NoQuality /\ Len(original_subs) = Len(translated_subs))
        => /\ quality[1] + quality[2] = Len(original_subs)
           /\ quality[3] = Rate(quality[1], Len(original_subs))
           /\ quality[2] = Cardinality(Untranslated \cup Leaking)

\* under a Japanese hint: a kana line identical to its source, and a line
\* that passes
C21_Witness ==
    /\ quality = <<1, 1, Rate(1, 2)>>
    /\ source_lang = "ja"
    /\ Len(original_subs) = 2
    /\ Len(translated_subs) = 2
    /\ original_subs[1] = "kana"
    /\ translated_subs[1] = "kana"
    /\ original_subs[2] = "abc"
    /\ translated_subs[2] = "xyz"


(***************************************************************************)
(* The worker of app.py: worker_thread, process_video_file and             *)
(* translate_subtitles                                                     *)
(***************************************************************************)
BATCH_SIZE == 15

\* max_retries of translate_subtitles
LegacyMaxRetries == 3

\* the lines parse_srt_content may return
LegacyDocs == {0, 15, 100}

\* the logs translate_subtitles writes
\*   "srt parse failed"     "字幕解析失败"
\*   "translating batch"    "正在翻译第 k/n 批..."
\*   "count mismatch"       "⚠️ 第 k 批翻译数量不匹配 ..."
\*   "batch retry"          "第 k 批失败，重试 r/3..."
\*   "batch failed"         "❌ 第 k 批重试 3 次均失败"
\*   "checking quality"     "检查翻译质量..."
\*   "save failed"          "字幕文件保存失败"
LogQualityFull == "quality full"            \* "✅ 翻译完成 (s/n 行)"
LogQualityPartial == "quality partial"      \* "⚠️ 部分翻译 (s/n 行, p%)"
LogQualityPoor == "quality poor"            \* "❌ 翻译质量差 (s/n 行, p%)"
LogQualityPoorBatches == "quality poor, failed batches"
                                            \* ... " | 失败批次: " first 5
\*   "model load failed"    "模型加载失败: ..."
\*   "transcribed"          "已转写 k 行"
\*   "extracting"           "正在提取..."
\*   "language"             "语言: ..."

\* TaskDAO.update_task of app.py: if status / if progress is not None /
\* if log, UPDATE tasks SET ... WHERE id=?
LWrite(w, status, progress, log) ==
    tasks' = IF wtask[w] \notin DOMAIN tasks THEN tasks
             ELSE [tasks EXCEPT ![wtask[w]] =
                     [@ EXCEPT !.status = IF status = None THEN @ ELSE status,
                               !.progress = IF progress = NoProgress THEN @ ELSE progress,
                               !.log = IF log = None THEN @ ELSE log]]

\* what no step of the app.py worker changes
LFrame ==
    UNCHANGED <<nextId, clock, dbEnabled, addRet, page, maxBatch, maxRetries,
                stack, err, cfgVars, tw, parseVars, original_subs, translated_subs,
                source_lang>>

\* what the steps outside translate_subtitles leave alone
LOutside == UNCHANGED <<doc, tpc, bi, out, resp, quality, legacyVars>>

\* the media library page: TaskDAO.add_task(f['file_path'])
LAdd(path) ==
    /\ nextId <= MaxId
    /\ \E now \in {clock, clock + 1} :
         /\ clock' = IF PathTaken(tasks, path) THEN clock ELSE now
         /\ tasks' = Insert(tasks, nextId, path, now)
    /\ addRet' = [path |-> path, ret |-> add_task_result(tasks, path)]
    /\ nextId' = IF add_task_result(tasks, path) = AddOk THEN nextId + 1 ELSE nextId
    /\ UNCHANGED <<dbEnabled, page, wpc, wtask, wcfg>>
    /\ UNCHANGED <<transVars, restVars>>

\* worker_thread: config = AppConfig.load_from_db()
LLoad(w) ==
    /\ wpc[w] = "load"
    /\ wcfg' = [wcfg EXCEPT ![w] = dbEnabled]
    /\ Goto(w, "lpoll")
    /\ UNCHANGED <<tasks, wtask>>
    /\ LFrame /\ LOutside

\* worker_thread: task = TaskDAO.get_pending_task(); without one the loop
\* sleeps and starts over
LPoll(w) ==
    /\ wpc[w] = "lpoll"
    /\ IF get_pending_task(tasks) = {}
       THEN /\ Goto(w, "load")
            /\ UNCHANGED wtask
       ELSE /\ \E id \in get_pending_task(tasks) : wtask' = [wtask EXCEPT ![w] = id]
            /\ Goto(w, "lstart")
    /\ UNCHANGED <<tasks, wcfg>>
    /\ LFrame /\ LOutside

\* process_video_file: update_task(status='processing', progress=0, ...)
LStart(w) ==
    /\ wpc[w] = "lstart"
    /\ LWrite(w, PROCESSING, 0, LogStarted)
    /\ Goto(w, "lcheck")
    /\ UNCHANGED <<wtask, wcfg>>
    /\ LFrame /\ LOutside

\* process_video_file: os.path.exists(file_path), srt_path.exists()
LCheckFile(w) ==
    /\ wpc[w] = "lcheck"
    /\ \E exists \in BOOLEAN, srt \in BOOLEAN :
         IF ~exists
         THEN /\ LWrite(w, FAILED, NoProgress, LogFileLost)
              /\ Goto(w, "load")
         ELSE IF srt
         THEN /\ LWrite(w, None, 50, LogSrtExists)
              /\ Goto(w, "lxlate")
         ELSE /\ LWrite(w, None, 5, LogLoadWhisper)
              /\ Goto(w, "lmodel")
    /\ UNCHANGED <<wtask, wcfg>>
    /\ LFrame /\ LOutside

\* process_video_file: WhisperModel(...) raises or not
LModel(w) ==
    /\ wpc[w] = "lmodel"
    /\ \E loaded \in BOOLEAN :
         IF loaded
         THEN /\ LWrite(w, None, 10, "extracting")
              /\ Goto(w, "lextract")
         ELSE /\ LWrite(w, FAILED, NoProgress, "model load failed")
              /\ Goto(w, "load")
    /\ UNCHANGED <<wtask, wcfg>>
    /\ LFrame /\ LOutside

\* 15 + min(35, int(idx / 300 * 35)) for the idx of a tenth segment
TranscribeProgress == {16, 50}

\* process_video_file: model.transcribe and the loop over the segments; it
\* raises, writes the progress of a tenth segment, or ends
LExtract(w) ==
    /\ wpc[w] \in {"lextract", "lsegments"}
    /\ \/ /\ LWrite(w, FAILED, NoProgress, LogExtractFailed)
          /\ Goto(w, "load")
       \/ /\ wpc[w] = "lextract"
          /\ LWrite(w, None, 15, "language")
          /\ Goto(w, "lsegments")
       \/ /\ wpc[w] = "lsegments"
          /\ \E p \in TranscribeProgress : LWrite(w, None, p, "transcribed")
          /\ UNCHANGED wpc
       \/ /\ wpc[w] = "lsegments"
          /\ Goto(w, "lxlate")
          /\ UNCHANGED tasks
    /\ UNCHANGED <<wtask, wcfg>>
    /\ LFrame /\ LOutside

\* process_video_file: translation disabled writes completed; enabled, it
\* writes progress 50 and calls translate_subtitles
LPrepare(w) ==
    /\ wpc[w] = "lxlate"
    /\ IF wcfg[w]
       THEN /\ LWrite(w, None, 50, LogPrepare)
            /\ Goto(w, "lparse")
       ELSE /\ LWrite(w, COMPLETED, 100, LogDone)
            /\ Goto(w, "lscan")
    /\ UNCHANGED <<wtask, wcfg>>
    /\ LFrame /\ LOutside

\* translate_subtitles: open and parse_srt_content; open raises (the except
\* of translate_subtitles logs and returns False), no entries return False,
\* else the loop over the batches starts
LParse(w) ==
    /\ wpc[w] = "lparse"
    /\ \E readable \in BOOLEAN, n \in LegacyDocs :
         IF ~readable
         THEN /\ LWrite(w, None, NoProgress, LogTransError)
              /\ tpc' = "failed"
              /\ Goto(w, "lreturn")
              /\ UNCHANGED doc
         ELSE IF n = 0
         THEN /\ LWrite(w, None, NoProgress, "srt parse failed")
              /\ tpc' = "failed"
              /\ Goto(w, "lreturn")
              /\ UNCHANGED doc
         ELSE /\ doc' = n
              /\ tpc' = "run"
              /\ Goto(w, "lbatch")
              /\ UNCHANGED tasks
    /\ bi' = 0
    /\ out' = <<>>
    /\ failed_batches' = <<>>
    /\ UNCHANGED <<wtask, wcfg, resp, quality, retry>>
    /\ LFrame

\* total_batches = (len(subs) + BATCH_SIZE - 1) // BATCH_SIZE
total_batches(n) == (n + BATCH_SIZE - 1) \div BATCH_SIZE

\* batch = subs[i:i+BATCH_SIZE] for the batch after bi batches
LegacyBatch(b, n) ==
    [lo |-> b * BATCH_SIZE,
     hi |-> IF (b + 1) * BATCH_SIZE < n THEN (b + 1) * BATCH_SIZE ELSE n]

\* translate_subtitles: the head of the for loop over the batches
LBatchStart(w) ==
    /\ wpc[w] = "lbatch"
    /\ LWrite(w, None, NoProgress, "translating batch")
    /\ retry' = 0
    /\ Goto(w, "lattempt")
    /\ UNCHANGED <<wtask, wcfg, doc, tpc, bi, out, resp, quality, failed_batches>>
    /\ LFrame

\* what the model answers: as many texts as asked, all translated; as many,
\* all equal to the source; another number of texts; no answer
LegacyResponses == {"ok", "echo", "count", "apierror"}

\* translate_subtitles: one turn of for retry in range(max_retries)
LAttempt(w) ==
    /\ wpc[w] = "lattempt"
    /\ \E kind \in LegacyResponses :
         LET b == LegacyBatch(bi, doc) IN
         /\ resp' = kind
         /\ IF kind \in Accepted
            THEN /\ out' = Append(out, Translated(b, kind))
                 /\ Goto(w, "lprogress")
                 /\ UNCHANGED <<tasks, retry, failed_batches>>
            ELSE IF kind = "count"
            THEN /\ LWrite(w, None, NoProgress, "count mismatch")
                 /\ out' = Append(out, <<b.lo, b.hi, 0>>)
                 /\ failed_batches' = Append(failed_batches, bi + 1)
                 /\ Goto(w, "lprogress")
                 /\ UNCHANGED retry
            ELSE IF retry < LegacyMaxRetries - 1
            THEN /\ LWrite(w, None, NoProgress, "batch retry")
                 /\ retry' = retry + 1
                 /\ UNCHANGED <<wpc, out, failed_batches>>
            ELSE /\ LWrite(w, None, NoProgress, "batch failed")
                 /\ out' = Append(out, <<b.lo, b.hi, 0>>)
                 /\ failed_batches' = Append(failed_batches, bi + 1)
                 /\ Goto(w, "lprogress")
                 /\ UNCHANGED retry
    /\ UNCHANGED <<wtask, wcfg, doc, tpc, bi, quality>>
    /\ LFrame

\* translate_subtitles: progress = 50 + int((batch_num / total_batches) * 40)
LProgress(w) ==
    /\ wpc[w] = "lprogress"
    /\ LWrite(w, None, 50 + ((bi + 1) * 40) \div total_batches(doc), None)
    /\ bi' = bi + 1
    /\ Goto(w, IF bi + 1 < total_batches(doc) THEN "lbatch" ELSE "laudit")
    /\ UNCHANGED <<wtask, wcfg, doc, tpc, out, resp, quality, legacyVars>>
    /\ LFrame

\* success_rate >= 0.95, in hundredths
MeetsFull(s, n) == s * 100 >= 95 * n

\* failed_batches[:5]
FirstFive(seq) == SubSeq(seq, 1, IF Len(seq) < 5 THEN Len(seq) ELSE 5)

\* final_log of translate_subtitles
final_log(s, n, failed) ==
    IF MeetsFull(s, n) THEN LogQualityFull
    ELSE IF MeetsPartial(s, n) THEN LogQualityPartial
    ELSE IF FirstFive(failed) # <<>> THEN LogQualityPoorBatches
    ELSE LogQualityPoor

\* translate_subtitles: check_translation_quality(subs, trans_subs, ...) on
\* a trans_subs of the length of subs (every batch added len(batch) lines)
LAudit(w) ==
    /\ wpc[w] = "laudit"
    /\ LWrite(w, None, 95, "checking quality")
    /\ quality' = <<Passed(out), doc - Passed(out), Rate(Passed(out), doc)>>
    /\ Goto(w, "lsave")
    /\ UNCHANGED <<wtask, wcfg, doc, tpc, bi, out, resp, legacyVars>>
    /\ LFrame

\* translate_subtitles: save_srt_file, then the classification by
\* success_rate and the final_log
LSave(w) ==
    /\ wpc[w] = "lsave"
    /\ \E saved \in BOOLEAN :
         IF ~saved
         THEN /\ LWrite(w, None, NoProgress, "save failed")
              /\ tpc' = "failed"
         ELSE /\ LWrite(w, None, NoProgress, final_log(quality[1], doc, failed_batches))
              /\ tpc' = IF MeetsPartial(quality[1], doc) THEN "done" ELSE "failed"
    /\ Goto(w, "lreturn")
    /\ UNCHANGED <<wtask, wcfg, doc, bi, out, resp, quality, legacyVars>>
    /\ LFrame

\* process_video_file: success = translate_subtitles(...), then
\* update_task(status='completed', progress=100, log="完成") or
\* update_task(status='failed', progress=100, log="翻译失败")
LReturn(w) ==
    /\ wpc[w] = "lreturn"
    /\ LWrite(w, TranslateStatus(tpc = "done"), 100,
              IF tpc = "done" THEN LogDone ELSE LogTransFailed)
    /\ Goto(w, "lscan")
    /\ doc' = 0
    /\ tpc' = "idle"
    /\ bi' = 0
    /\ out' = <<>>
    /\ resp' = None
    /\ quality' = NoQuality
    /\ retry' = 0
    /\ failed_batches' = <<>>
    /\ UNCHANGED <<wtask, wcfg>>
    /\ LFrame

\* process_video_file: scan_file_subtitles and update_media_subtitles; an
\* exception of theirs reaches the except of process_video_file
LScan(w) ==
    /\ wpc[w] = "lscan"
    /\ \E raised \in BOOLEAN :
         IF raised
         THEN LWrite(w, FAILED, NoProgress, LogException)
         ELSE UNCHANGED tasks
    /\ Goto(w, "load")
    /\ UNCHANGED <<wtask, wcfg>>
    /\ LFrame /\ LOutside

NextLegacy ==
    \/ LAdd(MultiPath)
    \/ LLoad("w1")
    \/ LPoll("w1")
    \/ LStart("w1")
    \/ LCheckFile("w1")
    \/ LModel("w1")
    \/ LExtract("w1")
    \/ LPrepare("w1")
    \/ LParse("w1")
    \/ LBatchStart("w1")
    \/ LAttempt("w1")
    \/ LProgress("w1")
    \/ LAudit("w1")
    \/ LSave("w1")
    \/ LReturn("w1")
    \/ LScan("w1")

SpecLegacy == Init /\ [][NextLegacy]_vars

\* the lines that classify a translation as partial or as poor
ClassificationLines == {LogQualityPartial, LogQualityPoor, LogQualityPoorBatches}

\* C19: the log of a job at rest in its terminal state carries the quality
\* classification line (the failed batches after a ratio below 0.80, the
\* warning after a partial success): once translate_subtitles has written
\* that line, no later write of the run replaces it.
C19_ClassificationLineStays ==
    [][\A id \in DOMAIN tasks :
         (tasks[id].log \in ClassificationLines /\ id \in DOMAIN tasks')
            => tasks'[id].log \in ClassificationLines]_vars


\* two worker loops and the media library page, several media files
NextLoops ==
    \/ \E path \in Paths : UIAdd(path)
    \/ \E w \in Workers : WLoad(w)
    \/ \E w \in Workers : WPoll(w)
    \/ \E w \in Workers : WStart(w)
    \/ \E w \in Workers : WCheckFile(w)
    \/ \E w \in Workers : WWhisperProgress(w)
    \/ \E w \in Workers : WWhisperRaise(w)
    \/ \E w \in Workers : WAfterExtract(w)
    \/ \E w \in Workers : WTranslateProgress(w)
    \/ \E w \in Workers : WTranslateOk(w)
    \/ \E w \in Workers : WTranslateFail(w)
    \/ \E w \in Workers : WTranslateRaise(w)
    \/ \E w \in Workers : WPostOk(w)
    \/ \E w \in Workers : WHandler(w)

SpecLoops == Init /\ [][NextLoops]_vars

\* C22: within one run of a job, from the write that sets it to processing
\* to the write that sets it to completed or failed, the persisted progress
\* never decreases; and every job's progress is an integer in 0..100.
C22_ProgressMonotone ==
    /\ [](\A id \in DOMAIN tasks : tasks[id].progress \in 0..100)
    /\ [][\A id \in DOMAIN tasks :
            (tasks[id].status = PROCESSING /\ id \in DOMAIN tasks')
               => tasks'[id].progress >= tasks[id].progress]_vars

\* C23: at most one job has status processing.
C23_OneProcessing ==
    Cardinality({id \in DOMAIN tasks : tasks[id].status = PROCESSING}) <= 1


(***************************************************************************)
(* The worker loop under failures of its collaborators                     *)
(***************************************************************************)
\* _worker_loop: self.config_manager.load() raises
WLoadRaise(w) ==
    /\ wpc[w] = "load"
    /\ Goto(w, "except")
    /\ UNCHANGED <<tasks, nextId, clock, dbEnabled, addRet, page, wtask, wcfg>>
    /\ UNCHANGED <<transVars, restVars>>

\* _worker_loop: TaskDAO.get_pending_task() raises
WPollRaise(w) ==
    /\ wpc[w] = "poll"
    /\ Goto(w, "except")
    /\ UNCHANGED <<tasks, nextId, clock, dbEnabled, addRet, page, wtask, wcfg>>
    /\ UNCHANGED <<transVars, restVars>>

\* _worker_loop: except Exception: print, time.sleep(10), and the while
\* test again
WLoopExcept(w) ==
    /\ wpc[w] = "except"
    /\ Goto(w, "load")
    /\ UNCHANGED <<tasks, nextId, clock, dbEnabled, addRet, page, wtask, wcfg>>
    /\ UNCHANGED <<transVars, restVars>>

\* the steps of a worker thread whose collaborators may raise
WorkerFaults ==
    \/ WLoad("w1")
    \/ WLoadRaise("w1")
    \/ WPoll("w1")
    \/ WPollRaise("w1")
    \/ WLoopExcept("w1")
    \/ WStart("w1")
    \/ WCheckFile("w1")
    \/ WWhisperProgress("w1")
    \/ WWhisperRaise("w1")
    \/ WAfterExtract("w1")
    \/ WTranslateProgress("w1")
    \/ WTranslateOk("w1")
    \/ WTranslateFail("w1")
    \/ WTranslateRaise("w1")
    \/ WPostOk("w1")
    \/ WHandler("w1")

NextFaults ==
    \/ UIAdd(MultiPath)
    \/ UIRender("s1")
    \/ \E id \in 1..MaxId : UIRetry("s1", id)
    \/ \E id \in 1..MaxId : UIDelete("s1", id)
    \/ \E b \in BOOLEAN : UISaveConfig(b)
    \/ WorkerFaults

\* the worker is a daemon thread: it always takes its next step
SpecFaults == Init /\ [][NextFaults]_vars /\ WF_vars(WorkerFaults)

\* C24: no exception raised while loading the configuration, polling the job
\* store or running a job ends the worker loop: after it the loop is at the
\* head of its while again, and polls again whenever the configuration
\* loads; the job whose run raised is set to failed.
C24_LoopSurvives ==
    /\ (wpc["w1"] = "except") ~> (wpc["w1"] = "load")
    /\ (wpc["w1"] \notin {"load", "poll", "except"}) ~> (wpc["w1"] = "load")
    /\ [][(/\ WWhisperRaise("w1") \/ WTranslateRaise("w1") \/ WHandler("w1")
           /\ wtask["w1"] \in DOMAIN tasks)
          => tasks'[wtask["w1"]].status = FAILED]_vars

\* the run of the job raised in its last steps, the job is failed and the
\* loop is polling again
C24_Witness ==
    /\ wpc["w1"] = "poll"
    /\ wtask["w1"] \in DOMAIN tasks
    /\ tasks[wtask["w1"]].status = FAILED
    /\ tasks[wtask["w1"]].log = LogException


\* C25: when the file of the job does not exist at the start of a run, the
\* job is set to failed and the run ends there, with no call of extraction,
\* translation or the rescan of the media index; and a failed job goes back
\* to pending only by a retry click, never by the system itself.
C25_MissingFileFailsAtOnce ==
    /\ [][\A w \in Workers :
            (/\ WCheckFile(w)
             /\ wtask[w] \in DOMAIN tasks
             /\ tasks'[wtask[w]].log = LogFileLost)
            => /\ tasks'[wtask[w]].status = FAILED
               /\ wpc'[w] = "load"]_vars
    /\ [][\A id \in DOMAIN tasks :
            (/\ tasks[id].status = FAILED
             /\ id \in DOMAIN tasks'
             /\ tasks'[id].status = PENDING)
            => \E s \in Sessions : UIRetry(s, id)]_vars

\* the job failed for its missing file and the loop is back at its head
C25_Witness ==
    /\ wpc["w1"] = "load"
    /\ wtask["w1"] \in DOMAIN tasks
    /\ tasks[wtask["w1"]].status = FAILED
    /\ tasks[wtask["w1"]].log = LogFileLost


\* C26: when the extraction raises, the job is set to failed and the run
\* ends there: translation, export and the rescan of the media index are not
\* invoked, and no later write of the run sets the job to completed (a job
\* whose log is the extraction failure is failed).
C26_ExtractionFailureEndsRun ==
    /\ [][\A w \in Workers :
            (WWhisperRaise(w) /\ wtask[w] \in DOMAIN tasks)
            => /\ tasks'[wtask[w]].status = FAILED
               /\ tasks'[wtask[w]].log = LogExtractFailed
               /\ wpc'[w] = "load"]_vars
    /\ [](\A id \in DOMAIN tasks :
            tasks[id].log = LogExtractFailed => tasks[id].status = FAILED)

\* the job failed in the extraction and the loop is back at its head
C26_Witness ==
    /\ wpc["w1"] = "load"
    /\ wtask["w1"] \in DOMAIN tasks
    /\ tasks[wtask["w1"]].status = FAILED
    /\ tasks[wtask["w1"]].log = LogExtractFailed


(***************************************************************************)
(* The end of a run: _export_formats, then rescan_video_subtitles          *)
(***************************************************************************)
\* _process_task: _export_formats.  With no format but srt, or without the
\* converter module, it writes nothing.  With a format exported it reads
\* TaskDAO.get_task_by_id(task_id).log: on a row that was deleted this is
\* None.log, an AttributeError that reaches the except of _process_task;
\* else it writes the log with the exported formats added
WExport(w) ==
    /\ wpc[w] = "post"
    /\ \E exported \in BOOLEAN :
         IF ~exported
         THEN /\ Goto(w, "rescan")
              /\ UNCHANGED tasks
         ELSE IF wtask[w] \notin DOMAIN tasks
         THEN /\ Write(w, HandlerStatus, NoProgress, LogException)
              /\ Goto(w, "load")
         ELSE /\ Write(w, None, NoProgress, "exported")
              /\ Goto(w, "rescan")
    /\ StoreOnly

\* _process_task: rescan_video_subtitles(file_path) returns, or raises into
\* the except of _process_task
WRescan(w) ==
    /\ wpc[w] = "rescan"
    /\ \E raised \in BOOLEAN :
         IF raised
         THEN Write(w, HandlerStatus, NoProgress, LogException)
         ELSE UNCHANGED tasks
    /\ Goto(w, "load")
    /\ StoreOnly

NextExport ==
    \/ UIAdd(MultiPath)
    \/ UIRender("s1")
    \/ \E id \in 1..MaxId : UIRetry("s1", id)
    \/ \E id \in 1..MaxId : UIDelete("s1", id)
    \/ \E b \in BOOLEAN : UISaveConfig(b)
    \/ WLoad("w1")
    \/ WPoll("w1")
    \/ WStart("w1")
    \/ WCheckFile("w1")
    \/ WWhisperProgress("w1")
    \/ WWhisperRaise("w1")
    \/ WAfterExtract("w1")
    \/ WTranslateProgress("w1")
    \/ WTranslateOk("w1")
    \/ WTranslateFail("w1")
    \/ WTranslateRaise("w1")
    \/ WExport("w1")
    \/ WRescan("w1")

SpecExport == Init /\ [][NextExport]_vars

\* C27: every run in which the extraction succeeded or the subtitle file
\* existed invokes the rescan of the media index exactly once before it
\* ends, whether the translation completed, failed or was disabled: the run
\* leaves its export step only into the rescan, and the rescan only into
\* the end of the run.
C27_RescanExactlyOnce ==
    [][\A w \in Workers :
         /\ (wpc[w] = "post" /\ wpc'[w] # "post") => wpc'[w] = "rescan"
         /\ (wpc[w] = "rescan" /\ wpc'[w] # "rescan") => wpc'[w] = "load"]_vars


\* C28: reset_task on a failed job sets its status to pending, its progress
\* to 0 and its log to the retry marker, keeps its id, file_path and
\* created_at, and leaves every other row as it is.
C28_ResetFrame ==
    [][\A s \in Sessions, id \in DOMAIN tasks :
         (UIRetry(s, id) /\ tasks[id].status = FAILED)
         => /\ DOMAIN tasks' = DOMAIN tasks
            /\ tasks'[id].status = PENDING
            /\ tasks'[id].progress = 0
            /\ tasks'[id].log = LogRetrying
            /\ tasks'[id].file_path = tasks[id].file_path
            /\ tasks'[id].created_at = tasks[id].created_at
            /\ \A j \in DOMAIN tasks \ {id} : tasks'[j] = tasks[j]]_vars

\* a failed job was reset next to another failed job
C28_Witness ==
    \E id, j \in DOMAIN tasks :
        /\ id # j
        /\ tasks[id].status = PENDING
        /\ tasks[id].log = LogRetrying
        /\ tasks[id].progress = 0
        /\ tasks[j].status = FAILED


\* C29: clear_completed_tasks removes exactly the rows that are completed or
\* failed when it is called and leaves every pending or processing row
\* unchanged in all its fields; the run in progress on a processing job is
\* not affected.
C29_ClearFrame ==
    [][\A s \in Sessions :
         UIClear(s)
         => /\ DOMAIN tasks' =
                 {i \in DOMAIN tasks : tasks[i].status \in {PENDING, PROCESSING}}
            /\ \A i \in DOMAIN tasks' : tasks'[i] = tasks[i]
            /\ UNCHANGED <<wpc, wtask, wcfg, transVars>>]_vars

\* two jobs were enqueued, one was cleared away, and the run on the other,
\* which is processing, goes on
C29_Witness ==
    /\ nextId = 3
    /\ DOMAIN tasks = {wtask["w1"]}
    /\ tasks[wtask["w1"]].status = PROCESSING
    /\ wpc["w1"] \in {"whisper", "t5", "t15", "afterx", "xlate", "x0", "x95"}
    /\ page["s1"] = get_all_tasks(tasks)


\* C30: the configuration of a run is fixed when the run starts: the loop
\* reads it from the database right before it polls, nothing changes it
\* until the loop is back at its head (a configuration saved in between
\* changes nothing of the run), the run decides on translation by it, and
\* the next poll comes after a new read of the database.
C30_ConfigFixedForRun ==
    [][\A w \in Workers :
         /\ (wpc[w] # "poll" /\ wpc'[w] = "poll") => wcfg'[w] = dbEnabled
         /\ wpc[w] # "load" => wcfg'[w] = wcfg[w]
         /\ WAfterExtract(w) => (wpc'[w] = "xlate" <=> wcfg[w])]_vars

\* a run translates although translation was disabled after its start
C30_Witness ==
    /\ wpc["w1"] = "xlate"
    /\ wcfg["w1"]
    /\ ~dbEnabled


\* C31: after a run that ended in the except clause of _process_task (job
\* set to failed with the truncated message) the next step of the loop is
\* the cooldown sleep of its own except clause, and only then a new poll.
C31_CooldownAfterFailedRun ==
    [][\A w \in Workers : WHandler(w) => wpc'[w] = "except"]_vars


\* C32: of a document longer than max_lines_per_batch every planned batch
\* but the last has exactly max_lines_per_batch entries; a batch after the
\* first gets as context_before the entry just before its start, a batch
\* that is not the last gets as context_after the entry at its end index, a
\* document of one batch gets no context, and a context entry is never one
\* of the batch's own entries.
C32_BatchSizesAndContext ==
    stack # <<>> =>
        LET f == stack[1] IN
        /\ doc <= maxBatch =>
              (f.lo = 0 /\ f.hi = doc /\ f.cb = NoContext /\ f.ca = NoContext)
        /\ doc > maxBatch =>
              /\ f.lo % maxBatch = 0
              /\ Size(f) = (IF f.lo + maxBatch < doc THEN maxBatch ELSE doc - f.lo)
              /\ f.cb = (IF f.lo > 0 THEN f.lo - 1 ELSE NoContext)
              /\ f.ca = (IF f.hi < doc THEN f.hi ELSE NoContext)
        /\ f.cb # NoContext => (0 <= f.cb /\ f.cb < f.lo)
        /\ f.ca # NoContext => (f.hi <= f.ca /\ f.ca < doc)

\* the second of the three batches of a document of 6 entries at 2 a batch
C32_Witness ==
    /\ doc = 6
    /\ maxBatch = 2
    /\ stack # <<>>
    /\ stack[1].lo = 2
    /\ stack[1].hi = 4
    /\ stack[1].cb = 1
    /\ stack[1].ca = 4


(***************************************************************************)
(* Saving settings: ui/sidebar.py _save_all_settings on the ConfigManager  *)
(* of core/config.py.  Every page holds a ConfigManager of its own.        *)
(***************************************************************************)
\* what the steps on a ConfigManager leave alone
MFrame ==
    UNCHANGED <<tasks, nextId, clock, addRet, page, wpc, wtask, wcfg, cfgHist, tw,
                transVars, parseVars, auditVars, legacyVars>>

\* _save_all_settings: config = config_manager.load(); load sets
\* self._last_saved_config_dict = loaded_config.to_dict()
MLoad(m) ==
    /\ mgr[m].pc = "idle"
    /\ mgr' = [mgr EXCEPT ![m] = [pc |-> "loaded", cache |-> load(dbEnabled),
                                  held |-> load(dbEnabled), ret |-> None]]
    /\ UNCHANGED dbEnabled
    /\ MFrame

\* the caller sets fields of the AppConfig it holds (_save_all_settings:
\* config.translation.enabled = changes['enable_translation'], ...)
MEdit(m, c) ==
    /\ mgr[m].pc = "loaded"
    /\ c # mgr[m].held
    /\ mgr' = [mgr EXCEPT ![m].held = c]
    /\ UNCHANGED dbEnabled
    /\ MFrame

\* ConfigManager.save(config): False when config.to_dict() equals
\* self._last_saved_config_dict; else INSERT OR REPLACE of the keys of
\* flat_config (enable_translation among them; max_retries and timeout are
\* not), commit, the cache takes the new dict, True; an exception of the
\* database rolls back and is raised again
MSave(m) ==
    /\ mgr[m].pc = "loaded"
    /\ IF mgr[m].held = mgr[m].cache
       THEN /\ mgr' = [mgr EXCEPT ![m].pc = "idle", ![m].ret = "False"]
            /\ UNCHANGED dbEnabled
       ELSE \E raised \in BOOLEAN :
              IF raised
              THEN /\ mgr' = [mgr EXCEPT ![m].pc = "idle", ![m].ret = "raised"]
                   /\ UNCHANGED dbEnabled
              ELSE /\ dbEnabled' = mgr[m].held.enabled
                   /\ mgr' = [mgr EXCEPT ![m].pc = "idle", ![m].ret = "True",
                                         ![m].cache = mgr[m].held]
    /\ MFrame

NextConfig ==
    \/ \E m \in Managers : MLoad(m)
    \/ \E m \in Managers, c \in Configs : MEdit(m, c)
    \/ \E m \in Managers : MSave(m)

SpecConfig == Init /\ [][NextConfig]_vars

\* the step of m is a call of save that returned
Saved(m) == mgr[m].pc = "loaded" /\ mgr'[m].pc = "idle" /\ mgr'[m].ret # "raised"

\* C33: the max_retries and the timeout of the configuration that save was
\* given are the ones a load after the save returns.
C33_RetriesAndTimeoutSurvive ==
    [][\A m \in Managers :
          Saved(m) =>
             /\ load(dbEnabled').max_retries = mgr[m].held.max_retries
             /\ load(dbEnabled').timeout = mgr[m].held.timeout]_vars


\* C35: when save(config) has returned, the row enable_translation of the
\* config table is the enabled of config, whatever another ConfigManager
\* saved since this one loaded; and save returns False only when the row
\* already was the enabled of config.
C35_SavePersistsConfig ==
    [][\A m \in Managers :
          Saved(m) =>
             /\ dbEnabled' = mgr[m].held.enabled
             /\ mgr'[m].ret = "False" => dbEnabled = mgr[m].held.enabled]_vars


(***************************************************************************)
(* The worker loop beside pages that save settings and enqueue jobs.       *)
(* cfgHist counts the saves that wrote the config table (ver), and keeps   *)
(* the count each loop's last load saw (wver) and the count at the time    *)
(* each job was enqueued (enq).                                            *)
(***************************************************************************)
\* the saves counted
MaxSaves == 2

\* ConfigManager.save of a changed configuration: the keys of flat_config
\* are written and committed
CSave(b) ==
    /\ cfgHist.ver < MaxSaves
    /\ dbEnabled' = b
    /\ cfgHist' = [cfgHist EXCEPT !.ver = @ + 1]
    /\ UNCHANGED <<tasks, nextId, clock, addRet, page, wpc, wtask, wcfg, mgr, tw>>
    /\ UNCHANGED <<transVars, parseVars, auditVars, legacyVars>>

\* _add_tasks_for_selected_files: ok, msg = TaskDAO.add_task(f.file_path)
CAdd(path) ==
    /\ nextId <= MaxId
    /\ \E now \in {clock, clock + 1} :
         /\ clock' = IF PathTaken(tasks, path) THEN clock ELSE now
         /\ tasks' = Insert(tasks, nextId, path, now)
    /\ addRet' = [path |-> path, ret |-> add_task_result(tasks, path)]
    /\ nextId' = IF add_task_result(tasks, path) = AddOk THEN nextId + 1 ELSE nextId
    /\ cfgHist' = IF add_task_result(tasks, path) = AddOk
                  THEN [cfgHist EXCEPT !.enq =
                           [i \in DOMAIN cfgHist.enq \cup {nextId} |-> 
                               IF i = nextId THEN cfgHist.ver ELSE cfgHist.enq[i]]]
                  ELSE cfgHist
    /\ UNCHANGED <<dbEnabled, page, wpc, wtask, wcfg, mgr, tw>>
    /\ UNCHANGED <<transVars, parseVars, auditVars, legacyVars>>

\* _worker_loop: config = self.config_manager.load()
CWLoad(w) ==
    /\ wpc[w] = "load"
    /\ wcfg' = [wcfg EXCEPT ![w] = dbEnabled]
    /\ cfgHist' = [cfgHist EXCEPT !.wver[w] = cfgHist.ver]
    /\ Goto(w, "poll")
    /\ UNCHANGED <<tasks, nextId, clock, dbEnabled, addRet, page, wtask, mgr, tw>>
    /\ UNCHANGED <<transVars, parseVars, auditVars, legacyVars>>

NextClaim ==
    \/ \E b \in BOOLEAN : CSave(b)
    \/ \E path \in Paths : CAdd(path)
    \/ CWLoad("w1")
    \/ WPoll("w1")
    \/ WStart("w1")
    \/ WCheckFile("w1")
    \/ WWhisperProgress("w1")
    \/ WWhisperRaise("w1")
    \/ WAfterExtract("w1")
    \/ WTranslateProgress("w1")
    \/ WTranslateOk("w1")
    \/ WTranslateFail("w1")
    \/ WTranslateRaise("w1")
    \/ WPostOk("w1")
    \/ WHandler("w1")

SpecClaim == Init /\ [][NextClaim]_vars

\* C36: the configuration a job run uses was loaded after every save that
\* was complete when the job was enqueued: at the poll that claims a job,
\* the loop's last load saw at least the saves the enqueueing saw.
C36_RunUsesSavedConfig ==
    [][\A w \in Workers :
          (wpc[w] = "poll" /\ wpc'[w] = "start") =>
             cfgHist.wver[w] >= cfgHist.enq[wtask'[w]]]_vars


(***************************************************************************)
(* The process ends and starts again: the worker is a daemon thread and    *)
(* the pages are session state, both are lost; the SQLite file stays.      *)
(***************************************************************************)
\* the steps of the one worker loop
WorkerLoop ==
    \/ WLoad("w1")
    \/ WPoll("w1")
    \/ WStart("w1")
    \/ WCheckFile("w1")
    \/ WWhisperProgress("w1")
    \/ WWhisperRaise("w1")
    \/ WAfterExtract("w1")
    \/ WTranslateProgress("w1")
    \/ WTranslateOk("w1")
    \/ WTranslateFail("w1")
    \/ WTranslateRaise("w1")
    \/ WPostOk("w1")
    \/ WHandler("w1")

\* TaskWorker.__init__ and start in the new process: self.running = False,
\* then True, and a new thread at the head of _worker_loop; the tables
\* tasks and config are as the old process left them
ProcessRestart ==
    /\ wpc' = [w \in Workers |-> "load"]
    /\ wtask' = [w \in Workers |-> 0]
    /\ wcfg' = [w \in Workers |-> FALSE]
    /\ page' = [s \in Sessions |-> <<>>]
    /\ addRet' = [path |-> None, ret |-> None]
    /\ UNCHANGED <<tasks, nextId, clock, dbEnabled>>
    /\ UNCHANGED <<transVars, restVars>>

NextRestart ==
    \/ \E path \in Paths : UIAdd(path)
    \/ UIRender("s1")
    \/ \E id \in 1..MaxId : UIRetry("s1", id)
    \/ \E id \in 1..MaxId : UIDelete("s1", id)
    \/ WorkerLoop
    \/ ProcessRestart

SpecRestart == Init /\ [][NextRestart]_vars

\* the row id is processing and no run of the loop is on it
Orphan(id) ==
    /\ id \in DOMAIN tasks
    /\ tasks[id].status = PROCESSING
    /\ ~InRun("w1") \/ wtask["w1"] # id

\* C34: a job that is processing when the process ends keeps its row over
\* the restart, and no step of the worker loop claims it or changes its
\* row as long as it is processing.
C34_ProcessingSurvivesRestart ==
    [][(WorkerLoop \/ ProcessRestart) =>
          \A id \in 1..MaxId :
             Orphan(id) =>
                /\ id \in DOMAIN tasks'
                /\ tasks'[id] = tasks[id]
                /\ wpc'["w1"] = "start" => wtask'["w1"] # id]_vars

\* job 1 was processing when the process ended, and the new loop has run
\* job 2 to its end beside it
C34_Witness ==
    /\ Orphan(1)
    /\ 2 \in DOMAIN tasks
    /\ tasks[2].status = COMPLETED
    /\ wtask["w1"] = 2
    /\ wpc["w1"] = "load"


(***************************************************************************)
(* Starting and stopping the TaskWorker: core/worker.py start, stop and    *)
(* the while test of _worker_loop.  wpc[w] = "none" says that the loop     *)
(* thread w does not exist; a loop at "load" is at its while test.         *)
(***************************************************************************)
\* the loop threads that exist
Alive == {w \in Workers : wpc[w] # "none"}

\* what the steps of start and stop leave alone
TwFrame ==
    UNCHANGED <<tasks, nextId, clock, dbEnabled, addRet, page, wtask, wcfg,
                transVars, parseVars, auditVars, legacyVars, cfgVars>>

\* start: if self.running: return (nothing changes); else go on to
\* wait_for_database()
StartTest(c) ==
    /\ tw.call[c] = "idle"
    /\ ~tw.running
    /\ tw' = [tw EXCEPT !.call[c] = "wait"]
    /\ UNCHANGED wpc
    /\ TwFrame

\* start: if not wait_for_database(): return
StartWait(c) ==
    /\ tw.call[c] = "wait"
    /\ \E ready \in BOOLEAN :
         tw' = [tw EXCEPT !.call[c] = IF ready THEN "set" ELSE "idle"]
    /\ UNCHANGED wpc
    /\ TwFrame

\* start: self.running = True
StartSet(c) ==
    /\ tw.call[c] = "set"
    /\ tw' = [tw EXCEPT !.running = TRUE, !.call[c] = "thread"]
    /\ UNCHANGED wpc
    /\ TwFrame

\* start: threading.Thread(target=self._worker_loop, daemon=True).start()
StartThread(c) ==
    /\ tw.call[c] = "thread"
    /\ \E w \in Workers \ Alive : wpc' = [wpc EXCEPT ![w] = "load"]
    /\ tw' = [tw EXCEPT !.call[c] = "idle"]
    /\ TwFrame

\* stop: self.running = False
Stop ==
    /\ tw.running
    /\ tw' = [tw EXCEPT !.running = FALSE]
    /\ UNCHANGED wpc
    /\ TwFrame

\* _worker_loop: while self.running is false, the thread ends
LoopEnd(w) ==
    /\ wpc[w] = "load"
    /\ ~tw.running
    /\ wpc' = [wpc EXCEPT ![w] = "none"]
    /\ UNCHANGED tw
    /\ TwFrame

\* no TaskWorker has been started
InitStart ==
    /\ tasks = <<>>
    /\ nextId = 1
    /\ clock = 0
    /\ dbEnabled \in BOOLEAN
    /\ addRet = [path |-> None, ret |-> None]
    /\ page = [s \in Sessions |-> <<>>]
    /\ wpc = [w \in Workers |-> "none"]
    /\ wtask = [w \in Workers |-> 0]
    /\ wcfg = [w \in Workers |-> FALSE]
    /\ tw = [running |-> FALSE, call |-> [c \in Callers |-> "idle"]]
    /\ TranslatorIdle
    /\ RestIdle

NextStart ==
    \/ UIAdd(MultiPath)
    \/ \E c \in Callers : StartTest(c)
    \/ \E c \in Callers : StartWait(c)
    \/ \E c \in Callers : StartSet(c)
    \/ \E c \in Callers : StartThread(c)
    \/ Stop
    \/ \E w \in Workers : LoopEnd(w)
    \/ \E w \in Workers : tw.running /\ WLoad(w)
    \/ \E w \in Workers : WPoll(w)
    \/ \E w \in Workers : WStart(w)
    \/ \E w \in Workers : WCheckFile(w)
    \/ \E w \in Workers : WWhisperProgress(w)
    \/ \E w \in Workers : WWhisperRaise(w)
    \/ \E w \in Workers : WAfterExtract(w)
    \/ \E w \in Workers : WTranslateProgress(w)
    \/ \E w \in Workers : WTranslateOk(w)
    \/ \E w \in Workers : WTranslateFail(w)
    \/ \E w \in Workers : WTranslateRaise(w)
    \/ \E w \in Workers : WPostOk(w)
    \/ \E w \in Workers : WHandler(w)

SpecStart == InitStart /\ [][NextStart]_vars

\* C37: whatever calls of start and stop were made, at most one loop
\* thread exists.
C37_OneLoopThread == Cardinality(Alive) <= 1


\* C38: a write of the worker for a job whose row was deleted during the
\* run leaves the table as it is: it makes no row and changes none, the row
\* of a later job for the same file_path included; a new row never takes an
\* id that a row had before, so no loop holds the id of a row made after
\* its claim.
C38_LateWritesReachNoRow ==
    /\ [](\A id \in DOMAIN tasks : id < nextId)
    /\ [](\A w \in Workers : wtask[w] < nextId)
    /\ [][/\ nextId' >= nextId
          /\ \A id \in DOMAIN tasks' \ DOMAIN tasks : id = nextId /\ nextId' > id]_vars
    /\ [][WorkerFaults =>
            (wtask["w1"] \notin DOMAIN tasks /\ wpc["w1"] \notin {"load", "poll"}
                => tasks' = tasks)]_vars

\* job 1 was deleted during its run and job 2 enqueued for the same file;
\* the run of job 1 has made its last write, and row 2 is as add_task made it
C38_Witness ==
    /\ wtask["w1"] = 1
    /\ wpc["w1"] = "post"
    /\ DOMAIN tasks = {2}
    /\ tasks[2] = NewRow(MultiPath, tasks[2].created_at)

====
